---- MODULE Spec2Model ----
(***************************************************************************)
(* A model of the vendored PDF engine of the resume-ranking application:   *)
(* PyPDF2/generic.py (TreeObject, Destination, EncodedStreamObject) and    *)
(* PyPDF2/merger.py (PdfFileMerger).                                       *)
(***************************************************************************)
EXTENDS Integers, Sequences, FiniteSets, TLC

(***************************************************************************)
(* Bounds of the model.                                                    *)
(***************************************************************************)
\* number of nodes that can be offered to addChild / removeChild
MaxChildren == 3
\* number of tree operations in one run
MaxTreeOps == 5
\* largest number of positional arguments handed to Destination
MaxDestArgs == 5
\* number of getData calls on one stream
MaxGetData == 4
\* number of distinct raw payloads of a stream
MaxPayload == 2
\* number of merge/append calls on one merger
MaxMerges == 2
\* number of pages of a source document
MaxSrcPages == 3
\* number of addNamedDestination calls on one merger
MaxAddDest == 1
\* largest page number handed to addNamedDestination
MaxPagenum == 1
\* number of objects in an object table
MaxObjects == 3
\* number of key/value pairs in a dictionary that is read
MaxPairs == 3
\* number of bytes after the opening parenthesis of a literal string
MaxStringBody == 4
\* number of bytes after "ID " in the stream of an inline image
MaxImageBytes == 6
\* number of bytes of the payload of a stream that is read
MaxPayloadBytes == 2
\* by how many bytes the declared /Length exceeds the payload
MaxOvershoot == 2
\* number of items of an array that is written and read back
MaxArrayItems == 2

(***************************************************************************)
(* The state of the components.                                            *)
(***************************************************************************)
VARIABLES nodes, treeErr, treeOp, treeMisuse, treeEmptied, treeSteps

treeVars == <<nodes, treeErr, treeOp, treeMisuse, treeEmptied, treeSteps>>

VARIABLES destTyp, destArgs, destObj, destArray

destVars == <<destTyp, destArgs, destObj, destArray>>

VARIABLES streamDict, streamData, decodedSelf, decodeCalls, getDataCalls, lastData

streamVars == <<streamDict, streamData, decodedSelf, decodeCalls, getDataCalls, lastData>>

VARIABLES srcDocs, fileKind, inputs, pages, bookmarks, named_dests, id_count, output,
          openHandles, suppliedHandles, mergeCalls, addDestCalls, mergeErr, phase,
          mergerOp

mergerVars == <<srcDocs, fileKind, inputs, pages, bookmarks, named_dests, id_count, output,
                openHandles, suppliedHandles, mergeCalls, addDestCalls, mergeErr, phase,
                mergerOp>>

VARIABLES objTable, resolveCur, resolveDepth, resolveState

resolveVars == <<objTable, resolveCur, resolveDepth, resolveState>>

VARIABLES parseFn, parseIn, parseOut

parseVars == <<parseFn, parseIn, parseOut>>

vars == <<treeVars, destVars, streamVars, mergerVars, resolveVars, parseVars>>

(***************************************************************************)
(* PDF values.  A dictionary is a function from its keys to tagged values; *)
(* "ref" is an IndirectObject, "obj" a directly stored dictionary, "num" a *)
(* NumberObject, "str" a string object and "pyint" a plain host integer    *)
(* (not a PdfObject).                                                      *)
(***************************************************************************)
Ref(n) == [t |-> "ref", n |-> n]
Obj(n) == [t |-> "obj", n |-> n]
Num(k) == [t |-> "num", n |-> k]
Str(k) == [t |-> "str", n |-> k]
PyInt(k) == [t |-> "pyint", n |-> k]

\* isinstance(value, PdfObject)
IsPdfObject(v) == v.t # "pyint"

\* key in dict
Has(d, k) == k \in DOMAIN d

\* dict.__setitem__ (the raw store, after the type checks)
Put(d, k, v) == [x \in (DOMAIN d) \cup {k} |-> IF x = k THEN v ELSE d[x]]

\* del dict[key]
Del(d, k) == [x \in (DOMAIN d) \ {k} |-> d[x]]

\* the empty dictionary
EmptyDict == [x \in {} |-> Num(0)]

(***************************************************************************)
(* TreeObject (generic.py).  The object table holds two tree nodes that    *)
(* act as parents and MaxChildren nodes that act as children.  Every node  *)
(* carries a /Title of its own, so that the dictionary comparison of the   *)
(* code (==) tells two different nodes apart.                              *)
(***************************************************************************)
Parents == {101, 102}
Children == 1..MaxChildren
NodeIds == Parents \cup Children
NoNode == 0
NoErr == "none"

\* the result of a tree operation: the object table and the exception raised
TreeResult(ns, err) == [ns |-> ns, err |-> err]

\* DictionaryObject.__setitem__ on the node n of the table ns
SetItem(ns, n, k, v) ==
    IF ~IsPdfObject(v)
    THEN TreeResult(ns, "ValueError: value must be PdfObject")
    ELSE TreeResult([ns EXCEPT ![n] = Put(ns[n], k, v)], NoErr)

\* del node[key]: KeyError when the key is absent
DelItem(ns, n, k) ==
    IF ~Has(ns[n], k)
    THEN TreeResult(ns, "KeyError")
    ELSE TreeResult([ns EXCEPT ![n] = Del(ns[n], k)], NoErr)

\* comparison of two dictionaries of the table (dict.__eq__)
DictEq(ns, a, b) == ns[a] = ns[b]

\* TreeObject.hasChildren
hasChildren(ns, p) == Has(ns[p], "First")

\* TreeObject.children: the nodes yielded by the generator, and how it ended
\* ("done", "KeyError" on a missing /Last or /Next, "loop" when it never ends)
RECURSIVE childrenFrom(_, _, _, _)
childrenFrom(ns, p, child, fuel) ==
    IF fuel = 0 THEN [seq |-> <<>>, end |-> "loop"]
    ELSE IF ~Has(ns[p], "Last") THEN [seq |-> <<child>>, end |-> "KeyError"]
    ELSE IF DictEq(ns, child, ns[p]["Last"].n) THEN [seq |-> <<child>>, end |-> "done"]
    ELSE IF ~Has(ns[child], "Next") THEN [seq |-> <<child>>, end |-> "KeyError"]
    ELSE LET rest == childrenFrom(ns, p, ns[child]["Next"].n, fuel - 1)
         IN  [seq |-> <<child>> \o rest.seq, end |-> rest.end]

children(ns, p) ==
    IF ~hasChildren(ns, p) THEN [seq |-> <<>>, end |-> "done"]
    ELSE childrenFrom(ns, p, ns[p]["First"].n, MaxChildren + 2)

\* TreeObject.addChild(child, pdf)
addChildUnlinked(ns, p, c) ==
    LET hadFirst == Has(ns[p], "First")
        n1 == IF hadFirst THEN ns
              ELSE [ns EXCEPT ![p] = Put(Put(ns[p], "First", Ref(c)), "Count", Num(0))]
        n2 == [n1 EXCEPT ![p] = Put(Put(n1[p], "Last", Ref(c)), "Count", Num(n1[p]["Count"].n + 1))]
    IN  IF hadFirst /\ ~Has(ns[p], "Last")
        THEN TreeResult(ns, "KeyError")
        ELSE TreeResult([n2 EXCEPT ![c] = Put(n2[c], "Parent", Ref(p))], NoErr)

addChild(ns, p, c) ==
    LET hadFirst == Has(ns[p], "First")
        prev == IF hadFirst THEN ns[p]["Last"].n ELSE NoNode
        n1 == IF hadFirst THEN ns
              ELSE [ns EXCEPT ![p] = Put(Put(ns[p], "First", Ref(c)), "Count", Num(0))]
        n2 == [n1 EXCEPT ![p] = Put(Put(n1[p], "Last", Ref(c)), "Count", Num(n1[p]["Count"].n + 1))]
        \* "if prev:" is the truth value of the dictionary prev: it is not empty
        n3 == IF prev # NoNode /\ DOMAIN n2[prev] # {}
              THEN [n2 EXCEPT ![c] = Put(n2[c], "Prev", Ref(prev)),
                              ![prev] = Put(n2[prev], "Next", Ref(c))]
              ELSE n2
    IN  IF hadFirst /\ ~Has(ns[p], "Last")
        THEN TreeResult(ns, "KeyError")
        ELSE TreeResult([n3 EXCEPT ![c] = Put(n3[c], "Parent", Ref(p))], NoErr)

\* self[/Count] = self[/Count] - 1: the difference is a plain integer
DecrementCount(ns, p) ==
    IF ~Has(ns[p], "Count") THEN TreeResult(ns, "KeyError")
    ELSE SetItem(ns, p, "Count", PyInt(ns[p]["Count"].n - 1))

\* removeChild, the branch taken when cur == child_obj (lines 760-792)
Unlink(ns, p, cur, prev, last) ==
    IF prev = NoNode
    THEN IF Has(ns[cur], "Next")
         THEN \* removing first tree node
              LET next == ns[cur]["Next"].n
                  r1 == DelItem(ns, next, "Prev")
              IN  IF r1.err # NoErr THEN r1
                  ELSE DecrementCount(SetItem(r1.ns, p, "First", Obj(next)).ns, p)
         ELSE \* removing only tree node
              IF ~Has(ns[p], "Count") THEN TreeResult(ns, "KeyError")
              ELSE IF ns[p]["Count"].n # 1 THEN TreeResult(ns, "AssertionError")
              ELSE LET d1 == Del(Del(ns[p], "Count"), "First")
                       d2 == IF Has(d1, "Last") THEN Del(d1, "Last") ELSE d1
                   IN  TreeResult([ns EXCEPT ![p] = d2], NoErr)
    ELSE IF Has(ns[cur], "Next")
         THEN \* removing middle tree node
              LET next == ns[cur]["Next"].n
                  r1 == SetItem(ns, next, "Prev", Obj(prev))
                  r2 == SetItem(r1.ns, prev, "Next", Obj(next))
              IN  DecrementCount(r2.ns, p)
         ELSE \* removing last tree node
              IF ~DictEq(ns, cur, last) THEN TreeResult(ns, "AssertionError")
              ELSE LET r1 == DelItem(ns, prev, "Next")
                   IN  IF r1.err # NoErr THEN r1
                       ELSE DecrementCount(SetItem(r1.ns, p, "Last", Obj(prev)).ns, p)

\* removeChild, the walk from /First (lines 759-801); found tells whether the
\* child was met
RECURSIVE Scan(_, _, _, _, _, _, _)
Scan(ns, p, c, cur, prev, last, fuel) ==
    IF cur = NoNode THEN [ns |-> ns, err |-> NoErr, found |-> FALSE]
    ELSE IF fuel = 0 THEN [ns |-> ns, err |-> "loop", found |-> FALSE]
    ELSE IF DictEq(ns, cur, c)
         THEN LET r == Unlink(ns, p, cur, prev, last)
              IN  [ns |-> r.ns, err |-> r.err, found |-> TRUE]
    ELSE Scan(ns, p, c,
              IF Has(ns[cur], "Next") THEN ns[cur]["Next"].n ELSE NoNode,
              cur, last, fuel - 1)

\* TreeObject.removeChild(child)
removeChildLenient(ns, p, c) ==
    IF ~Has(ns[c], "Parent") THEN TreeResult(ns, NoErr)
    ELSE IF ~Has(ns[p], "First") \/ ~Has(ns[p], "Last")
    THEN TreeResult(ns, "KeyError")
    ELSE LET s == Scan(ns, p, c, ns[p]["First"].n, NoNode, ns[p]["Last"].n, MaxChildren + 2)
         IN  IF s.err # NoErr THEN TreeResult(s.ns, s.err)
             ELSE IF ~s.found THEN TreeResult(s.ns, NoErr)
             ELSE LET d1 == Del(s.ns[c], "Parent")
                      d2 == IF Has(d1, "Next") THEN Del(d1, "Next") ELSE d1
                      d3 == IF Has(d2, "Prev") THEN Del(d2, "Prev") ELSE d2
                  IN  TreeResult([s.ns EXCEPT ![c] = d3], NoErr)

removeChild(ns, p, c) ==
    IF ~Has(ns[c], "Parent")
    THEN TreeResult(ns, "ValueError: Removed child does not appear to be a tree item")
    ELSE IF ~DictEq(ns, ns[c]["Parent"].n, p)
    THEN TreeResult(ns, "ValueError: Removed child is not a member of this tree")
    ELSE IF ~Has(ns[p], "First") \/ ~Has(ns[p], "Last")
    THEN TreeResult(ns, "KeyError")
    ELSE LET s == Scan(ns, p, c, ns[p]["First"].n, NoNode, ns[p]["Last"].n, MaxChildren + 2)
         IN  IF s.err # NoErr THEN TreeResult(s.ns, s.err)
             ELSE IF ~s.found
             THEN TreeResult(s.ns, "ValueError: Removal couldn't find item in tree")
             ELSE LET d1 == Del(s.ns[c], "Parent")
                      d2 == IF Has(d1, "Next") THEN Del(d1, "Next") ELSE d1
                      d3 == IF Has(d2, "Prev") THEN Del(d2, "Prev") ELSE d2
                  IN  TreeResult([s.ns EXCEPT ![c] = d3], NoErr)

\* emptyTree's loop (lines 813-819): the body runs on the child the generator
\* children() has yielded, and the generator is resumed after the body
RECURSIVE emptyLoop(_, _, _, _)
emptyLoop(ns, p, child, fuel) ==
    IF fuel = 0 THEN TreeResult(ns, "loop")
    ELSE IF ~Has(ns[child], "Parent") THEN TreeResult(ns, "KeyError")
    ELSE LET d1 == Del(ns[child], "Parent")
             d2 == IF Has(d1, "Next") THEN Del(d1, "Next") ELSE d1
             d3 == IF Has(d2, "Prev") THEN Del(d2, "Prev") ELSE d2
             n1 == [ns EXCEPT ![child] = d3]
         IN  \* children() resumes: "if child == self[/Last]: return"
             IF ~Has(n1[p], "Last") THEN TreeResult(n1, "KeyError")
             ELSE IF DictEq(n1, child, n1[p]["Last"].n) THEN TreeResult(n1, NoErr)
             \* "child = child[/Next]"
             ELSE IF ~Has(n1[child], "Next") THEN TreeResult(n1, "KeyError")
             ELSE emptyLoop(n1, p, n1[child]["Next"].n, fuel - 1)

\* TreeObject.emptyTree()
emptyTreeKeepLast(ns, p) ==
    LET r == IF hasChildren(ns, p)
             THEN emptyLoop(ns, p, ns[p]["First"].n, MaxChildren + 2)
             ELSE TreeResult(ns, NoErr)
    IN  IF r.err # NoErr THEN r
        ELSE LET d1 == IF Has(r.ns[p], "Count") THEN Del(r.ns[p], "Count") ELSE r.ns[p]
                 d2 == IF Has(d1, "First") THEN Del(d1, "First") ELSE d1
             IN  TreeResult([r.ns EXCEPT ![p] = d2], NoErr)

emptyTree(ns, p) ==
    LET r == IF hasChildren(ns, p)
             THEN emptyLoop(ns, p, ns[p]["First"].n, MaxChildren + 2)
             ELSE TreeResult(ns, NoErr)
    IN  IF r.err # NoErr THEN r
        ELSE LET d1 == IF Has(r.ns[p], "Count") THEN Del(r.ns[p], "Count") ELSE r.ns[p]
                 d2 == IF Has(d1, "First") THEN Del(d1, "First") ELSE d1
                 d3 == IF Has(d2, "Last") THEN Del(d2, "Last") ELSE d2
             IN  TreeResult([r.ns EXCEPT ![p] = d3], NoErr)

TreeInit ==
    /\ nodes = [n \in NodeIds |-> [k \in {"Title"} |-> Str(n)]]
    /\ treeErr = NoErr
    /\ treeOp = [op |-> "init", p |-> NoNode, c |-> NoNode]
    /\ treeMisuse = FALSE
    /\ treeEmptied = FALSE
    /\ treeSteps = 0

\* the nodes reached from /First via /Next up to /Last
Walk(ns, p) == children(ns, p).seq

InSeq(x, s) == \E i \in 1..Len(s) : s[i] = x

\* a caller adds a node that is in no tree yet
AddChild(p, c) ==
    /\ treeSteps < MaxTreeOps
    /\ treeSteps' = treeSteps + 1
    /\ ~Has(nodes[c], "Parent")
    /\ LET r == addChild(nodes, p, c)
       IN  /\ nodes' = r.ns
           /\ treeErr' = r.err
    /\ treeOp' = [op |-> "addChild", p |-> p, c |-> c]
    /\ UNCHANGED <<treeMisuse, treeEmptied, destVars, streamVars, mergerVars,
                   resolveVars, parseVars>>

\* a caller removes any node from any parent; a call whose target is not a
\* current child of the parent is recorded as misuse
RemoveChild(p, c) ==
    /\ treeSteps < MaxTreeOps
    /\ treeSteps' = treeSteps + 1
    /\ LET r == removeChild(nodes, p, c)
       IN  /\ nodes' = r.ns
           /\ treeErr' = r.err
    /\ treeOp' = [op |-> "removeChild", p |-> p, c |-> c]
    /\ treeMisuse' = (treeMisuse \/ ~InSeq(c, Walk(nodes, p)))
    /\ UNCHANGED <<treeEmptied, destVars, streamVars, mergerVars,
                   resolveVars, parseVars>>

\* a caller empties a parent
EmptyTree(p) ==
    /\ treeSteps < MaxTreeOps
    /\ treeSteps' = treeSteps + 1
    /\ LET r == emptyTree(nodes, p)
       IN  /\ nodes' = r.ns
           /\ treeErr' = r.err
    /\ treeOp' = [op |-> "emptyTree", p |-> p, c |-> NoNode]
    /\ treeEmptied' = TRUE
    /\ UNCHANGED <<treeMisuse, destVars, streamVars, mergerVars,
                   resolveVars, parseVars>>

TreeNext ==
    \/ \E p \in Parents, c \in Children : AddChild(p, c)
    \/ \E p \in Parents, c \in Children : RemoveChild(p, c)
    \/ \E p \in Parents : EmptyTree(p)

(***************************************************************************)
(* Destination (generic.py).  A name object is [t |-> "name", s |-> text]. *)
(***************************************************************************)
Name(s) == [t |-> "name", s |-> s]
Null == [t |-> "null"]

\* the eight fit types of the docstring's table, and one that is no fit type
FitTypes == {"/Fit", "/XYZ", "/FitH", "/FitV", "/FitR", "/FitB", "/FitBH", "/FitBV"}
DestTypes == FitTypes \cup {"/Bogus"}
DestArgValues == {Num(826), Null}

\* the result of a constructor: the dictionary built and the exception raised
DestResult(d, err) == [d |-> d, err |-> err]

\* "(self[k1], ..., self[kn]) = args": the tuple is unpacked first, and a
\* length that differs from n raises ValueError before anything is stored
RECURSIVE StoreAll(_, _, _)
StoreAll(d, keys, args) ==
    IF keys = <<>> THEN d
    ELSE StoreAll(Put(d, Head(keys), Head(args)), Tail(keys), Tail(args))

UnpackLenient(d, keys, args) ==
    DestResult(StoreAll(d, SubSeq(keys, 1, IF Len(args) < Len(keys) THEN Len(args) ELSE Len(keys)),
                        args), NoErr)

Unpack(d, keys, args) ==
    IF Len(args) # Len(keys)
    THEN DestResult(d, "ValueError: unpack")
    ELSE DestResult(StoreAll(d, keys, args), NoErr)

\* the branch of /Fit and /FitB: "pass"
FitBranchStrict(d, args) ==
    IF args # <<>> THEN DestResult(d, "ValueError: unpack") ELSE DestResult(d, NoErr)

FitBranch(d, args) == DestResult(d, NoErr)

\* Destination.__init__(title, page, typ, *args)
Destination(title, page, typ, args) ==
    LET d == [k \in {"Title", "Page", "Type"} |->
                 IF k = "Title" THEN title ELSE IF k = "Page" THEN page ELSE Name(typ)]
    IN  IF typ = "/XYZ" THEN Unpack(d, <<"Left", "Top", "Zoom">>, args)
        ELSE IF typ = "/FitR" THEN Unpack(d, <<"Left", "Bottom", "Right", "Top">>, args)
        ELSE IF typ \in {"/FitH", "/FitBH"} THEN Unpack(d, <<"Top">>, args)
        ELSE IF typ \in {"/FitV", "/FitBV"} THEN Unpack(d, <<"Left">>, args)
        ELSE IF typ \in {"/Fit", "/FitB"} THEN FitBranch(d, args)
        ELSE DestResult(d, "PdfReadError: Unknown Destination Type")

\* the positional fields of getDestArray that are present, in the code's order
RECURSIVE PresentFields(_, _)
PresentFields(d, keys) ==
    IF keys = <<>> THEN <<>>
    ELSE (IF Has(d, Head(keys)) THEN <<d[Head(keys)]>> ELSE <<>>)
         \o PresentFields(d, Tail(keys))

\* Destination.getDestArray()
getDestArrayNoZoom(d) ==
    <<d["Page"], d["Type"]>> \o PresentFields(d, <<"Left", "Bottom", "Right", "Top">>)

getDestArray(d) ==
    <<d["Page"], d["Type"]>> \o PresentFields(d, <<"Left", "Bottom", "Right", "Top", "Zoom">>)

\* sequences over S of length 0..n
RECURSIVE SeqsUpTo(_, _)
SeqsUpTo(S, n) ==
    IF n = 0 THEN {<<>>}
    ELSE LET shorter == SeqsUpTo(S, n - 1)
         IN  shorter \cup {Append(q, x) : q \in {r \in shorter : Len(r) = n - 1}, x \in S}

NotBuilt == [state |-> "none"]
NoArray == <<>>

DestInit ==
    /\ destTyp \in DestTypes
    /\ destArgs \in SeqsUpTo(DestArgValues, MaxDestArgs)
    /\ destObj = NotBuilt
    /\ destArray = NoArray

\* a caller constructs Destination(title, page, typ, *args)
Construct ==
    /\ destObj = NotBuilt
    /\ LET r == Destination(Str(1), Ref(1), destTyp, destArgs)
       IN  destObj' = IF r.err = NoErr
                      THEN [state |-> "built", d |-> r.d]
                      ELSE [state |-> "raised", err |-> r.err]
    /\ UNCHANGED <<destTyp, destArgs, destArray, treeVars, streamVars, mergerVars,
                   resolveVars, parseVars>>

\* a caller asks a constructed destination for its array
GetDestArray ==
    /\ destObj.state = "built"
    /\ destArray = NoArray
    /\ destArray' = getDestArray(destObj.d)
    /\ UNCHANGED <<destTyp, destArgs, destObj, treeVars, streamVars, mergerVars,
                   resolveVars, parseVars>>

DestNext == Construct \/ GetDestArray

(***************************************************************************)
(* EncodedStreamObject (generic.py).                                       *)
(***************************************************************************)
None == [state |-> "None"]
NoData == 0

\* filters.decodeStreamData: the filter collaborator, decode(bytes) -> bytes
decodeStreamData(payload) == payload + 100

\* the keys an encoded stream may carry beside /Filter
OptionalStreamKeys == {"Length", "DecodeParms", "Type", "Subtype"}

\* the entries getData copies into the decoded object (lines 896-898)
CopiedKeys(d) == (DOMAIN d) \ {"Length", "Filter", "DecodeParms"}

\* "if self.decodedSelf:": None is false, and a DecodedStreamObject is a
\* dictionary, which is true when it has an entry
Truth(ds) == ds # None /\ DOMAIN ds.d # {}

\* EncodedStreamObject.getData(): the value returned, the cache afterwards and
\* the number of decode calls made
getData(self, data, ds) ==
    IF Truth(ds)
    THEN [ret |-> ds.data, ds |-> ds, decoded |-> 0]
    ELSE LET decoded == [state |-> "DecodedStreamObject",
                         data |-> decodeStreamData(data),
                         d |-> [k \in CopiedKeys(self) |-> self[k]]]
         IN  [ret |-> decoded.data, ds |-> decoded, decoded |-> 1]

StreamInit ==
    /\ \E ks \in SUBSET OptionalStreamKeys :
          streamDict = [k \in ks \cup {"Filter"} |->
                           IF k = "Length" THEN Num(1) ELSE Name("/" \o k)]
    /\ streamData \in 1..MaxPayload
    /\ decodedSelf = None
    /\ decodeCalls = 0
    /\ getDataCalls = 0
    /\ lastData = NoData

\* a caller calls getData()
GetData ==
    /\ getDataCalls < MaxGetData
    /\ LET r == getData(streamDict, streamData, decodedSelf)
       IN  /\ decodedSelf' = r.ds
           /\ lastData' = r.ret
           /\ decodeCalls' = decodeCalls + r.decoded
    /\ getDataCalls' = getDataCalls + 1
    /\ UNCHANGED <<streamDict, streamData, treeVars, destVars, mergerVars,
                   resolveVars, parseVars>>

StreamNext == GetData

(***************************************************************************)
(* PdfFileMerger (merger.py).                                              *)
(*                                                                         *)
(* A source document is what the PdfFileReader of one merge call gives:    *)
(* its pages (contents[i] is the content of page i-1; two pages with the   *)
(* same content are page dictionaries that compare equal), its outline     *)
(* (getOutlines) and its named destinations (namedDestinations).  Every    *)
(* merge call builds a reader of its own, so the pages of two calls never  *)
(* compare equal: their indirect references belong to different readers.   *)
(***************************************************************************)
\* /Page values: a reference to page pg of the reader of call src, that page
\* dictionary itself, and the reference of an output page
PRef(src, pg) == [t |-> "pref", src |-> src, pg |-> pg]
PObj(src, pg) == [t |-> "pobj", src |-> src, pg |-> pg]
ORef(n) == [t |-> "oref", n |-> n]

\* the two shapes of an outline item: a bookmark dictionary and a nested list
Bm(d) == [k |-> "bm", d |-> d]
List(items) == [k |-> "list", items |-> items]

\* titles of the entries of the model
TitleEntry == 1
TitleHeader == 2
TitleChild == 3
TitleDest == 4
TitleMerge == 5
TitleAdded == 6

\* an outline entry of a source document, as _buildDestination makes it
SrcEntry(src, title, pg, typ) ==
    LET r == Destination(Str(title), PRef(src, pg), typ,
                         IF typ = "/XYZ" THEN <<Num(1), Null, Num(2)>>
                         ELSE IF typ = "/FitH" THEN <<Num(826)>>
                         ELSE <<>>)
    IN  r.d

SrcPageIdx == 0..(MaxSrcPages - 1)

\* the outlines of the source documents: none, one entry, or a group header
\* followed by the list of its one child
SrcOutlines ==
    {<<>>}
    \cup {<<[k |-> "bm", title |-> TitleEntry, pg |-> t, typ |-> "/XYZ"]>> : t \in SrcPageIdx}
    \cup {<<[k |-> "bm", title |-> TitleHeader, pg |-> t1, typ |-> "/FitH"],
            [k |-> "list", items |-> <<[k |-> "bm", title |-> TitleChild, pg |-> t2, typ |-> "/Fit"]>>]>> :
              t1 \in SrcPageIdx, t2 \in SrcPageIdx}

\* the named destinations of the source documents: none or one
SrcDests == {<<>>} \cup {<<[title |-> TitleDest, pg |-> t]>> : t \in SrcPageIdx}

\* page contents: all pages differ, or the first two pages are equal
DistinctPages == [i \in 1..MaxSrcPages |-> i]
TwinPages == [i \in 1..MaxSrcPages |-> IF i = 2 THEN 1 ELSE i]
SrcContents == {DistinctPages, TwinPages}

PlainDoc == [contents |-> DistinctPages, outline |-> <<>>, dests |-> <<>>]

\* a document has an outline, a named destination, or an entry and a named
\* destination on the same page; the documents with one entry or one named
\* destination come with and without equal pages
RichDocs ==
    {[contents |-> c, outline |-> o, dests |-> <<>>] :
        c \in SrcContents, o \in {x \in SrcOutlines : Len(x) < 2}}
    \cup {[contents |-> DistinctPages, outline |-> o, dests |-> <<>>] : o \in SrcOutlines}
    \cup {[contents |-> c, outline |-> <<>>, dests |-> d] : c \in SrcContents, d \in SrcDests}
    \cup {[contents |-> DistinctPages,
           outline |-> <<[k |-> "bm", title |-> TitleEntry, pg |-> t, typ |-> "/XYZ"]>>,
           dests |-> <<[title |-> TitleDest, pg |-> t]>>] : t \in SrcPageIdx}

\* the documents handed to the merge calls of one run: one of them is any
\* document, the others are plain
DocPlans ==
    {[i \in 1..MaxMerges |-> IF i = k THEN d ELSE PlainDoc] : k \in 1..MaxMerges, d \in RichDocs}

\* what the caller passes as fileobj: a path, a file-like object, a
\* PdfFileReader, or an object that is none of these
FileKinds == {"path", "stream", "reader", "other"}

\* PdfFileReader.getNumPages
getNumPages(doc) == Len(doc.contents)

\* PdfFileReader.getOutlines: a fresh nested list of Destination objects
RECURSIVE getOutlines(_, _)
getOutlines(src, items) ==
    [i \in 1..Len(items) |->
        IF items[i].k = "list" THEN List(getOutlines(src, items[i].items))
        ELSE Bm(SrcEntry(src, items[i].title, items[i].pg, items[i].typ))]

\* PdfFileReader.namedDestinations, as the list of its values
namedDestinations(src, doc) ==
    [i \in 1..Len(doc.dests) |-> SrcEntry(src, doc.dests[i].title, doc.dests[i].pg, "/Fit")]

\* "page.getObject() == other.getObject()" on two page dictionaries: the
\* dictionaries are compared entry by entry
PageDictEq(docs, a, b) ==
    /\ a.t \in {"pref", "pobj"}
    /\ b.t \in {"pref", "pobj"}
    /\ a.src = b.src
    /\ docs[a.src].contents[a.pg + 1] = docs[b.src].contents[b.pg + 1]

\* range(*pages) for pages = (start, stop)
Range(rng) == rng.start..(rng.stop - 1)

\* the inner loops of _trim_dests and _trim_outline: some page of the range
\* equals the target of o
InPages(docs, src, rng, o) ==
    \E j \in Range(rng) : PageDictEq(docs, PObj(src, j), o["Page"])

\* o[/Page] = o[/Page].getObject()
Resolved(v) == IF v.t = "pref" THEN PObj(v.src, v.pg) ELSE v

\* PdfFileMerger._trim_dests
RECURSIVE trimDestsFrom(_, _, _, _, _)
trimDestsFrom(docs, src, dests, rng, i) ==
    IF i > Len(dests) THEN <<>>
    ELSE (IF InPages(docs, src, rng, dests[i])
          THEN <<Put(dests[i], "Page", Resolved(dests[i]["Page"]))>>
          ELSE <<>>)
         \o trimDestsFrom(docs, src, dests, rng, i + 1)

trim_dests(docs, src, dests, rng) == trimDestsFrom(docs, src, dests, rng, 1)

\* PdfFileMerger._trim_outline: i is the position in outline, acc is
\* new_outline and pha is prev_header_added
RECURSIVE trimOutlineFrom(_, _, _, _, _, _, _)
trimOutlineFrom(docs, src, outline, rng, i, acc, pha) ==
    IF i > Len(outline) THEN acc
    ELSE LET o == outline[i]
         IN  IF o.k = "list"
             THEN LET sub == trimOutlineFrom(docs, src, o.items, rng, 1, <<>>, TRUE)
                      \* outline[i - 1]; for the first item this is outline[-1]
                      header == outline[IF i = 1 THEN Len(outline) ELSE i - 1]
                  IN  IF sub # <<>>
                      THEN trimOutlineFrom(docs, src, outline, rng, i + 1,
                               (IF ~pha THEN Append(acc, header) ELSE acc) \o <<List(sub)>>, pha)
                      ELSE trimOutlineFrom(docs, src, outline, rng, i + 1, acc, pha)
             ELSE IF InPages(docs, src, rng, o.d)
                  THEN trimOutlineFrom(docs, src, outline, rng, i + 1,
                           Append(acc, Bm(Put(o.d, "Page", Resolved(o.d["Page"])))), TRUE)
                  ELSE trimOutlineFrom(docs, src, outline, rng, i + 1, acc, FALSE)

trim_outline(docs, src, outline, rng) == trimOutlineFrom(docs, src, outline, rng, 1, <<>>, TRUE)

\* _MergedPage(pagedata, src, id)
MergedPage(src, pg, id) == [src |-> src, pg |-> pg, id |-> id, out |-> None]

\* the loop of lines 186-194: the pages of the range, numbered from id_count
srcpagesOfOneId(src, rng, idc) ==
    [i \in 1..(IF rng.stop > rng.start THEN rng.stop - rng.start ELSE 0) |->
        MergedPage(src, rng.start + i - 1, idc)]

srcpagesOf(src, rng, idc) ==
    [i \in 1..(IF rng.stop > rng.start THEN rng.stop - rng.start ELSE 0) |->
        MergedPage(src, rng.start + i - 1, idc + i - 1)]

\* an exception of the merger: its kind and the title it names
MergeError(kind, title) == [kind |-> kind, title |-> title]
NoMergeErr == MergeError("none", Str(0))

\* the inner loop of the two _associate methods: the id of the last page of
\* pages that equals the target, -1 for None
RECURSIVE pagenoOf(_, _, _, _, _)
pagenoOf(docs, target, srcpages, i, found) ==
    IF i > Len(srcpages) THEN found
    ELSE pagenoOf(docs, target, srcpages, i + 1,
                  IF PageDictEq(docs, target, PObj(srcpages[i].src, srcpages[i].pg))
                  THEN srcpages[i].id ELSE found)

\* PdfFileMerger._associate_dests_to_pages: the list afterwards and the error
RECURSIVE associateDestsFrom(_, _, _, _)
associateDestsFrom(docs, nds, srcpages, i) ==
    IF i > Len(nds) THEN [list |-> nds, err |-> NoMergeErr]
    ELSE LET np == nds[i]["Page"]
             pageno == pagenoOf(docs, np, srcpages, 1, -1)
         IN  IF np.t = "num" THEN associateDestsFrom(docs, nds, srcpages, i + 1)
             ELSE IF pageno # -1
             THEN associateDestsFrom(docs, [nds EXCEPT ![i] = Put(nds[i], "Page", Num(pageno))],
                                     srcpages, i + 1)
             ELSE [list |-> nds,
                   err |-> MergeError("ValueError: Unresolved named destination", nds[i]["Title"])]

associate_dests_to_pages(docs, nds, srcpages) == associateDestsFrom(docs, nds, srcpages, 1)

\* PdfFileMerger._associate_bookmarks_to_pages
RECURSIVE associateBookmarksFrom(_, _, _, _)
associateBookmarksFrom(docs, bms, srcpages, i) ==
    IF i > Len(bms) THEN [list |-> bms, err |-> NoMergeErr]
    ELSE LET b == bms[i]
         IN  IF b.k = "list"
             THEN LET r == associateBookmarksFrom(docs, b.items, srcpages, 1)
                      bms1 == [bms EXCEPT ![i] = List(r.list)]
                  IN  IF r.err # NoMergeErr THEN [list |-> bms1, err |-> r.err]
                      ELSE associateBookmarksFrom(docs, bms1, srcpages, i + 1)
             ELSE LET bp == b.d["Page"]
                      pageno == pagenoOf(docs, bp, srcpages, 1, -1)
                  IN  IF bp.t = "num" THEN associateBookmarksFrom(docs, bms, srcpages, i + 1)
                      ELSE IF pageno # -1
                      THEN associateBookmarksFrom(docs,
                               [bms EXCEPT ![i] = Bm(Put(b.d, "Page", Num(pageno)))], srcpages, i + 1)
                      ELSE [list |-> bms,
                            err |-> MergeError("ValueError: Unresolved bookmark", b.d["Title"])]

associate_bookmarks_to_pages(docs, bms, srcpages) == associateBookmarksFrom(docs, bms, srcpages, 1)

\* the state of a PdfFileMerger as one record
MergerState(inp, pgs, bms, nds, idc, out, hs, err) ==
    [inputs |-> inp, pages |-> pgs, bookmarks |-> bms, named_dests |-> nds,
     id_count |-> idc, output |-> out, openHandles |-> hs, err |-> err]

\* the handle the caller passes and the handle the merger makes in call k
CallerHandle(k) == [call |-> k, owner |-> "caller"]
MergerHandle(k) == [call |-> k, owner |-> "merger"]

\* lines 117-145: the stream handed to PdfFileReader and my_file.  A path is
\* opened, a file-like object or a reader is copied into a new buffer, any
\* other object is used as it is.
OpenSource(k, kind) ==
    IF kind \in {"path", "stream", "reader"}
    THEN [fo |-> MergerHandle(k), mine |-> TRUE, opened |-> {MergerHandle(k)}]
    ELSE [fo |-> CallerHandle(k), mine |-> FALSE, opened |-> {}]

\* the page arguments of the model: None, a (start, stop) tuple, or a list
NoPages == [k |-> "none", start |-> 0, stop |-> 0]
BadPages == [k |-> "list", start |-> 0, stop |-> 0]
Tuple(a, b) == [k |-> "tuple", start |-> a, stop |-> b]
PageArgs ==
    {NoPages, BadPages, Tuple(0, 0), Tuple(1, 2),
     Tuple(0, MaxSrcPages - 1), Tuple(1, MaxSrcPages)}

\* an index of a slice, as the list type clamps it
SliceIndex(position, len) ==
    IF position < 0
    THEN (IF len + position < 0 THEN 0 ELSE len + position)
    ELSE (IF position > len THEN len ELSE position)

\* self.pages[position:position] = srcpages
SpliceAtEnd(pgs, position, srcpages) == pgs \o srcpages

Splice(pgs, position, srcpages) ==
    LET at == SliceIndex(position, Len(pgs))
    IN  SubSeq(pgs, 1, at) \o srcpages \o SubSeq(pgs, at + 1, Len(pgs))

\* PdfFileMerger.merge(position, fileobj, bookmark, pages, import_bookmarks)
\* in call k on the document doc of docs[k]; bookmark is TRUE when a title
\* is given
merge(st, docs, k, position, kind, bookmark, pagesArg, import_bookmarks) ==
    LET doc == docs[k]
        src == OpenSource(k, kind)
        hs == st.openHandles \cup src.opened
        rng == IF pagesArg.k = "none" THEN Tuple(0, getNumPages(doc)) ELSE pagesArg
        bm == Destination(Str(TitleMerge), Num(st.id_count), "/Fit", <<>>).d
        outline == IF import_bookmarks
                   THEN trim_outline(docs, k, getOutlines(k, doc.outline), rng)
                   ELSE <<>>
        bms1 == IF bookmark
                THEN st.bookmarks \o <<Bm(bm), List(outline)>>
                ELSE st.bookmarks \o outline
        nds1 == st.named_dests \o trim_dests(docs, k, namedDestinations(k, doc), rng)
        srcpages == srcpagesOf(k, rng, st.id_count)
        idc1 == st.id_count + Len(srcpages)
        rd == associate_dests_to_pages(docs, nds1, srcpages)
        rb == associate_bookmarks_to_pages(docs, bms1, srcpages)
    IN  IF pagesArg.k = "list"
        THEN [st EXCEPT !.openHandles = hs,
                        !.err = MergeError("TypeError: pages must be a tuple", Str(0))]
        ELSE IF rd.err # NoMergeErr
        THEN MergerState(st.inputs, st.pages, bms1, rd.list, idc1, st.output, hs, rd.err)
        ELSE IF rb.err # NoMergeErr
        THEN MergerState(st.inputs, st.pages, rb.list, rd.list, idc1, st.output, hs, rb.err)
        ELSE MergerState(Append(st.inputs, [fo |-> src.fo, mine |-> src.mine]),
                         Splice(st.pages, position, srcpages),
                         rb.list, rd.list, idc1, st.output, hs, NoMergeErr)

\* PdfFileMerger.addNamedDestination(title, pagenum)
addNamedDestination(nds, title, pagenum) ==
    Append(nds, Destination(Str(title), Num(pagenum), "/FitH", <<Num(826)>>).d)

\* the output PdfFileWriter: its pages, its named destinations and the nodes
\* of its outline (parent 0 is the outline root)
NewWriter == [state |-> "PdfFileWriter", pages |-> <<>>, dests |-> <<>>, outline |-> <<>>]

\* PdfFileWriter.addPage
addPage(out, page) == [out EXCEPT !.pages = Append(@, [src |-> page.src, pg |-> page.pg])]

\* PdfFileWriter.getReference of the page added last
getReferenceOfLast(out) == ORef(Len(out.pages))

\* PdfFileWriter.addNamedDestinationObject
addNamedDestinationObject(out, dest) == [out EXCEPT !.dests = Append(@, dest)]

\* PdfFileWriter.addBookmarkDict(bookmark, parent): the new node is the last
addBookmarkDict(out, bookmark, parent) ==
    [out EXCEPT !.outline = Append(@, [parent |-> parent, d |-> bookmark])]

\* the loop of lines 244-248
RECURSIVE writePagesFrom(_, _, _)
writePagesFrom(pgs, out, i) ==
    IF i > Len(pgs) THEN [pages |-> pgs, out |-> out]
    ELSE LET out1 == addPage(out, pgs[i])
         IN  writePagesFrom([pgs EXCEPT ![i].out = getReferenceOfLast(out1)], out1, i + 1)

\* "for pageno, page in enumerate(self.pages): if page.id == x: ...; break":
\* the index of the first page whose id is the number x, 0 when there is none
FirstWithId(pgs, x) ==
    IF x.t = "num" /\ \E i \in 1..Len(pgs) : pgs[i].id = x.n
    THEN CHOOSE i \in 1..Len(pgs) : pgs[i].id = x.n /\ \A j \in 1..(i - 1) : pgs[j].id # x.n
    ELSE 0

\* PdfFileMerger._write_dests
RECURSIVE writeDestsFrom(_, _, _, _)
writeDestsFrom(nds, pgs, out, i) ==
    IF i > Len(nds) THEN [named_dests |-> nds, out |-> out]
    ELSE LET nd == nds[i]
             at == IF Has(nd, "Page") THEN FirstWithId(pgs, nd["Page"]) ELSE 0
             nd1 == IF at # 0 THEN Put(nd, "Page", pgs[at].out) ELSE nd
             \* pageno is not None: /Page is present and self.pages is not empty
             added == Has(nd, "Page") /\ pgs # <<>>
         IN  writeDestsFrom([nds EXCEPT ![i] = nd1], pgs,
                            IF added THEN addNamedDestinationObject(out, nd1) ELSE out, i + 1)

write_dests(nds, pgs, out) == writeDestsFrom(nds, pgs, out, 1)

Float(v) == [t |-> "float", n |-> v.n]

\* 'FloatObject(bookmark[key]) if key in bookmark and not Null else FloatObject(0)'
FloatArg(bookmark, key) ==
    IF Has(bookmark, key) /\ bookmark[key].t # "null"
    THEN Float(bookmark[key]) ELSE Float(Num(0))

RECURSIVE DelAll(_, _)
DelAll(d, keys) == IF keys = <<>> THEN d ELSE DelAll(Del(d, Head(keys)), Tail(keys))

RECURSIVE FloatArgs(_, _)
FloatArgs(bookmark, keys) ==
    IF keys = <<>> THEN <<>>
    ELSE <<FloatArg(bookmark, Head(keys))>> \o FloatArgs(bookmark, Tail(keys))

\* the first element of the /D array of the action
ActionPage(page) == Num(page.id)

\* PdfFileMerger._write_bookmark_on_page
write_bookmark_on_page(bookmark, page) ==
    LET typ == bookmark["Type"].s
        keys == IF typ \in {"/FitH", "/FitBH"} THEN <<"Top">>
                ELSE IF typ \in {"/FitV", "/FitBV"} THEN <<"Left">>
                ELSE IF typ = "/XYZ" THEN <<"Left", "Top", "Zoom">>
                ELSE IF typ = "/FitR" THEN <<"Left", "Bottom", "Right", "Top">>
                ELSE <<>>
        args == <<ActionPage(page), Name(typ)>> \o FloatArgs(bookmark, keys)
    IN  Put(DelAll(bookmark, keys), "A", [S |-> Name("/GoTo"), D |-> args])

\* PdfFileMerger._write_bookmarks(bookmarks, parent); last is last_added
RECURSIVE writeBookmarksFlat(_, _, _, _, _, _)
writeBookmarksFlat(bms, pgs, out, parent, last, i) ==
    IF i > Len(bms) THEN [bookmarks |-> bms, out |-> out]
    ELSE LET b == bms[i]
         IN  IF b.k = "list"
             THEN LET r == writeBookmarksFlat(b.items, pgs, out, parent, 0, 1)
                  IN  writeBookmarksFlat([bms EXCEPT ![i] = List(r.bookmarks)], pgs, r.out,
                                         parent, last, i + 1)
             ELSE LET at == IF Has(b.d, "Page") THEN FirstWithId(pgs, b.d["Page"]) ELSE 0
                      b1 == IF at # 0 THEN write_bookmark_on_page(b.d, pgs[at]) ELSE b.d
                      added == Has(b.d, "Page") /\ pgs # <<>>
                      b2 == IF added THEN Del(Del(b1, "Page"), "Type") ELSE b1
                      out1 == IF added THEN addBookmarkDict(out, b2, parent) ELSE out
                  IN  writeBookmarksFlat([bms EXCEPT ![i] = Bm(b2)], pgs, out1, parent,
                                         IF added THEN Len(out1.outline) ELSE last, i + 1)

RECURSIVE writeBookmarksFrom(_, _, _, _, _, _)
writeBookmarksFrom(bms, pgs, out, parent, last, i) ==
    IF i > Len(bms) THEN [bookmarks |-> bms, out |-> out]
    ELSE LET b == bms[i]
         IN  IF b.k = "list"
             THEN LET r == writeBookmarksFrom(b.items, pgs, out, last, 0, 1)
                  IN  writeBookmarksFrom([bms EXCEPT ![i] = List(r.bookmarks)], pgs, r.out,
                                         parent, last, i + 1)
             ELSE LET at == IF Has(b.d, "Page") THEN FirstWithId(pgs, b.d["Page"]) ELSE 0
                      b1 == IF at # 0 THEN write_bookmark_on_page(b.d, pgs[at]) ELSE b.d
                      \* page_no is not None
                      added == Has(b.d, "Page") /\ pgs # <<>>
                      b2 == IF added THEN Del(Del(b1, "Page"), "Type") ELSE b1
                      out1 == IF added THEN addBookmarkDict(out, b2, parent) ELSE out
                  IN  writeBookmarksFrom([bms EXCEPT ![i] = Bm(b2)], pgs, out1, parent,
                                         IF added THEN Len(out1.outline) ELSE last, i + 1)

write_bookmarks(bms, pgs, out) == writeBookmarksFrom(bms, pgs, out, 0, 0, 1)

\* PdfFileMerger.write(fileobj)
write(st) ==
    LET rp == writePagesFrom(st.pages, st.output, 1)
        rd == write_dests(st.named_dests, rp.pages, rp.out)
        rb == write_bookmarks(st.bookmarks, rp.pages, rd.out)
    IN  MergerState(st.inputs, rp.pages, rb.bookmarks, rd.named_dests, st.id_count,
                    rb.out, st.openHandles, NoMergeErr)

\* the loop of close: the handles of self.inputs that are closed
ClosedByClose(inp) == {inp[i].fo : i \in {j \in 1..Len(inp) : inp[j].mine}}

\* PdfFileMerger.close()
close(st) ==
    MergerState(<<>>, <<>>, st.bookmarks, st.named_dests, st.id_count, None,
                st.openHandles \ ClosedByClose(st.inputs), NoMergeErr)

\* the call made last: the method, the position it was given and the range
\* of source pages it selected
Call(op, position, start, stop) ==
    [op |-> op, position |-> position, start |-> start, stop |-> stop]

\* the merger as a record
Merger ==
    MergerState(inputs, pages, bookmarks, named_dests, id_count, output, openHandles, mergeErr)

\* PdfFileMerger.__init__, and the documents of the run
MergerInit ==
    /\ srcDocs \in DocPlans
    /\ fileKind \in FileKinds
    /\ inputs = <<>>
    /\ pages = <<>>
    /\ bookmarks = <<>>
    /\ named_dests = <<>>
    /\ id_count = 0
    /\ output = NewWriter
    /\ openHandles = {}
    /\ suppliedHandles = {}
    /\ mergeCalls = 0
    /\ addDestCalls = 0
    /\ mergeErr = NoMergeErr
    /\ phase = "open"
    /\ mergerOp = Call("init", 0, 0, 0)

\* the merger takes the fields of st
Becomes(st) ==
    /\ inputs' = st.inputs
    /\ pages' = st.pages
    /\ bookmarks' = st.bookmarks
    /\ named_dests' = st.named_dests
    /\ id_count' = st.id_count
    /\ output' = st.output
    /\ openHandles' = st.openHandles
    /\ mergeErr' = st.err

\* the handle the caller holds open when it passes an object of this kind
Supplied(k, kind) == IF kind = "path" THEN {} ELSE {CallerHandle(k)}

\* one call of merge, made directly or by append; the callers of one run pass
\* file objects of one kind
MergeCall(op, position, kind, bookmark, pagesArg, import_bookmarks) ==
    LET k == mergeCalls + 1
        rng == IF pagesArg.k = "none" THEN Tuple(0, getNumPages(srcDocs[k])) ELSE pagesArg
    IN  /\ phase = "open"
        /\ kind = fileKind
        /\ mergeCalls < MaxMerges
        /\ mergeCalls' = k
        /\ suppliedHandles' = suppliedHandles \cup Supplied(k, kind)
        /\ Becomes(merge([Merger EXCEPT !.openHandles = @ \cup Supplied(k, kind)],
                         srcDocs, k, position, kind, bookmark, pagesArg, import_bookmarks))
        /\ mergerOp' = Call(op, position, rng.start, rng.stop)
        /\ UNCHANGED <<srcDocs, fileKind, addDestCalls, phase, treeVars, destVars, streamVars,
                       resolveVars, parseVars>>

\* a caller calls merge(position, fileobj, bookmark, pages, import_bookmarks)
Merge(position, kind, bookmark, pagesArg, import_bookmarks) ==
    MergeCall("merge", position, kind, bookmark, pagesArg, import_bookmarks)

\* a caller calls append(fileobj, bookmark, pages, import_bookmarks)
AppendFile(kind, bookmark, pagesArg, import_bookmarks) ==
    MergeCall("append", Len(pages), kind, bookmark, pagesArg, import_bookmarks)

\* a caller calls addNamedDestination(title, pagenum), after its merges
AddNamedDestination(pagenum) ==
    /\ phase = "open"
    /\ mergeCalls = MaxMerges
    /\ addDestCalls < MaxAddDest
    /\ addDestCalls' = addDestCalls + 1
    /\ named_dests' = addNamedDestination(named_dests, TitleAdded, pagenum)
    /\ mergeErr' = NoMergeErr
    /\ mergerOp' = Call("addNamedDestination", pagenum, 0, 0)
    /\ UNCHANGED <<srcDocs, fileKind, inputs, pages, bookmarks, id_count, output, openHandles,
                   suppliedHandles, mergeCalls, phase, treeVars, destVars, streamVars,
                   resolveVars, parseVars>>

\* a caller calls write(fileobj)
Write ==
    /\ phase = "open"
    /\ Becomes(write(Merger))
    /\ phase' = "written"
    /\ mergerOp' = Call("write", 0, 0, 0)
    /\ UNCHANGED <<srcDocs, fileKind, suppliedHandles, mergeCalls, addDestCalls,
                   treeVars, destVars, streamVars,
                   resolveVars, parseVars>>

\* a caller calls close()
Close ==
    /\ phase \in {"open", "written"}
    /\ Becomes(close(Merger))
    /\ phase' = "closed"
    /\ mergerOp' = Call("close", 0, 0, 0)
    /\ UNCHANGED <<srcDocs, fileKind, suppliedHandles, mergeCalls, addDestCalls,
                   treeVars, destVars, streamVars,
                   resolveVars, parseVars>>

\* the positions offered to merge
Positions == {-1, 0, 1}

MergerNext ==
    \/ \E position \in Positions, bookmark \in BOOLEAN,
          pagesArg \in PageArgs, import_bookmarks \in BOOLEAN :
          Merge(position, fileKind, bookmark, pagesArg, import_bookmarks)
    \/ \E bookmark \in BOOLEAN, pagesArg \in PageArgs, import_bookmarks \in BOOLEAN :
          AppendFile(fileKind, bookmark, pagesArg, import_bookmarks)
    \/ \E pagenum \in 0..MaxPagenum : AddNamedDestination(pagenum)
    \/ Write
    \/ Close

\* the result of a reader that has not run
NotParsed == [done |-> FALSE]

(***************************************************************************)
(* IndirectObject.getObject (generic.py).  A document owns an object table  *)
(* that maps an object number to the object read for it; a malformed file   *)
(* can make that object a reference again.  Every call of getObject is a    *)
(* step; the interpreter ends a recursion that reaches its limit with a     *)
(* RecursionError.                                                          *)
(***************************************************************************)
ObjectIds == 1..MaxObjects

\* the objects a table can hold for a number: a direct object or a reference
TableValues == {Obj(n) : n \in ObjectIds} \cup {Ref(n) : n \in ObjectIds}

\* the depth of calls at which the interpreter raises RecursionError: deeper
\* than every chain of references that ends
RecursionLimit == MaxObjects + 2

\* self.pdf.getObject(self): the owning document looks the reference up
pdfGetObject(table, ref) == table[ref.n]

ResolveInit ==
    /\ objTable \in [ObjectIds -> TableValues]
    /\ resolveCur = Ref(1)
    /\ resolveDepth = 0
    /\ resolveState = "idle"

\* a caller calls getObject() on the reference to object r
GetObject(r) ==
    /\ resolveState = "idle"
    /\ resolveCur' = Ref(r)
    /\ resolveDepth' = 1
    /\ resolveState' = "resolving"
    /\ UNCHANGED <<objTable, treeVars, destVars, streamVars, mergerVars, parseVars>>

\* "return self.pdf.getObject(self).getObject()": the object looked up is a
\* reference, whose getObject is called in turn, or any other object, whose
\* getObject returns it
ResolveStep ==
    /\ resolveState = "resolving"
    /\ LET o == pdfGetObject(objTable, resolveCur)
       IN  IF o.t # "ref"
           THEN /\ resolveCur' = o
                /\ resolveState' = "returned"
                /\ UNCHANGED resolveDepth
           ELSE IF resolveDepth >= RecursionLimit
           THEN /\ resolveState' = "RecursionError"
                /\ UNCHANGED <<resolveCur, resolveDepth>>
           ELSE /\ resolveCur' = o
                /\ resolveDepth' = resolveDepth + 1
                /\ UNCHANGED resolveState
    /\ UNCHANGED <<objTable, treeVars, destVars, streamVars, mergerVars, parseVars>>

ResolveNext ==
    \/ \E r \in ObjectIds : GetObject(r)
    \/ ResolveStep

(***************************************************************************)
(* The readers of generic.py.  Each is a function of the bytes (or of the   *)
(* objects readObject returns) it is given: a run draws one input and       *)
(* applies the reader to it.                                                *)
(***************************************************************************)
\* more values of the object model: text strings, arrays and booleans
Text(chars) == [t |-> "text", s |-> chars]
Arr(items) == [t |-> "array", items |-> items]
Bool(b) == [t |-> "bool", b |-> b]

\* the truth value Python gives an object: a NumberObject is an int, a
\* TextStringObject a str, an ArrayObject a list; the other classes define
\* neither __bool__ nor __len__
PyTruth(v) ==
    IF v.t = "num" THEN v.n # 0
    ELSE IF v.t = "text" THEN v.s # <<>>
    ELSE IF v.t = "array" THEN v.items # <<>>
    ELSE TRUE

\* the keys and values readObject returns to the dictionary reader
DictKeys == {"/A", "/B"}
DictValues == {Num(0), Num(7), Text(<<>>), Text(<<"x">>), Arr(<<>>), Bool(FALSE)}
DictPairs == {[key |-> k, value |-> v] : k \in DictKeys, v \in DictValues}

\* "data.get(key)": the value stored for key, None when there is none
DictGet(data, key) == IF Has(data, key) THEN data[key] ELSE None

\* "if not data.get(key)": no entry, or an entry whose value is false
Missing(v) == v = None \/ ~PyTruth(v)

\* the loop of DictionaryObject.readFromStream over the pairs read, in strict
\* or lenient mode: the dictionary, the error raised and the warnings given
RECURSIVE readPairs(_, _, _, _, _)
readPairs(pairs, strict, i, data, warnings) ==
    IF i > Len(pairs) THEN [done |-> TRUE, data |-> data, err |-> NoErr, warnings |-> warnings]
    ELSE LET key == pairs[i].key
             value == pairs[i].value
         IN  IF Missing(DictGet(data, key))
             THEN readPairs(pairs, strict, i + 1, Put(data, key, value), warnings)
             ELSE IF strict
             THEN [done |-> TRUE, data |-> data,
                   err |-> "PdfReadError: Multiple definitions in dictionary", warnings |-> warnings]
             ELSE readPairs(pairs, strict, i + 1, data, warnings + 1)

readDictionary(pairs, strict) == readPairs(pairs, strict, 1, EmptyDict, 0)

DictInputs ==
    {[pairs |-> ps, strict |-> st] : ps \in SeqsUpTo(DictPairs, MaxPairs), st \in BOOLEAN}

\* bytes are numbers; the bytes the readers single out
LF == 10
CR == 13
SP == 32
LParen == 40
RParen == 41
Backslash == 92
Digits == 48..57

\* stream.read(1) at position pos (counted from 0): the byte, or EOF
EOF == -1
ByteAt(bytes, pos) == IF pos < Len(bytes) THEN bytes[pos + 1] ELSE EOF

\* escape_dict of readStringFromStream: the bytes an escaped byte stands for
EscapeKeys == {110, 114, 116, 98, 102, 99, 40, 41, 47, 92, 32, 37, 60, 62, 91, 93, 35, 95, 38, 36}

EscapedAsIs(c) == <<c>>

Escaped(c) ==
    IF c = 110 THEN <<LF>>
    ELSE IF c = 114 THEN <<CR>>
    ELSE IF c = 116 THEN <<9>>
    ELSE IF c = 98 THEN <<8>>
    ELSE IF c = 102 THEN <<12>>
    ELSE IF c = 99 THEN <<Backslash, 99>>
    ELSE <<c>>

\* int(tok, base=8) for a sequence of digits below 8
RECURSIVE OctalValue(_)
OctalValue(tok) ==
    IF tok = <<>> THEN 0
    ELSE 8 * OctalValue(SubSeq(tok, 1, Len(tok) - 1)) + (tok[Len(tok)] - 48)

\* the loop of two further reads after the first digit at pos: the digits
\* taken and the position afterwards; the byte that ends the digits is read
\* and not put back
OctalDigits(bytes, pos) ==
    LET d1 == ByteAt(bytes, pos)
        d2 == ByteAt(bytes, pos + 1)
        d3 == ByteAt(bytes, pos + 2)
    IN  IF d2 \notin Digits THEN [tok |-> <<d1>>, pos |-> pos + 2]
        ELSE IF d3 \notin Digits THEN [tok |-> <<d1, d2>>, pos |-> pos + 3]
        ELSE [tok |-> <<d1, d2, d3>>, pos |-> pos + 3]

\* createStringObject on bytes that PDFDocEncoding maps to themselves
createStringObject(txt) == Text(txt)

\* readStringFromStream from position pos, which is after the opening
\* parenthesis: parens is the depth and txt the bytes gathered
RECURSIVE readStringFrom(_, _, _, _)
readStringFrom(bytes, pos, parens, txt) ==
    LET tok == ByteAt(bytes, pos)
        esc == ByteAt(bytes, pos + 1)
    IN  IF tok = EOF
        THEN [done |-> TRUE, err |-> "PdfStreamError: Stream has ended unexpectedly",
              value |-> None, pos |-> pos]
        ELSE IF tok = LParen THEN readStringFrom(bytes, pos + 1, parens + 1, txt \o <<tok>>)
        ELSE IF tok = RParen
        THEN (IF parens = 1
              THEN [done |-> TRUE, err |-> NoErr, value |-> createStringObject(txt),
                    pos |-> pos + 1]
              ELSE readStringFrom(bytes, pos + 1, parens - 1, txt \o <<tok>>))
        ELSE IF tok # Backslash THEN readStringFrom(bytes, pos + 1, parens, txt \o <<tok>>)
        ELSE IF esc \in EscapeKeys
        THEN readStringFrom(bytes, pos + 2, parens, txt \o Escaped(esc))
        ELSE IF esc \in Digits
        THEN LET o == OctalDigits(bytes, pos + 1)
             IN  readStringFrom(bytes, IF o.pos > Len(bytes) THEN Len(bytes) ELSE o.pos,
                                parens, txt \o <<OctalValue(o.tok)>>)
        ELSE IF esc \in {LF, CR, EOF}
        THEN \* an escaped line break: a second end-of-line byte is read too
             readStringFrom(bytes,
                            IF esc = EOF THEN pos + 1
                            ELSE IF ByteAt(bytes, pos + 2) \in {LF, CR} THEN pos + 3
                            ELSE pos + 2,
                            parens, txt)
        ELSE \* an unexpected escape gives a warning and the byte is kept
             readStringFrom(bytes, pos + 2, parens, txt \o <<esc>>)

readStringFromStream(bytes) == readStringFrom(bytes, 1, 1, <<>>)

\* the literal strings given to the reader: an opening parenthesis and up to
\* MaxStringBody bytes, and the string (\101\n\\))
StringAlphabet == {LParen, RParen, Backslash, 48, 49, 110}
EscapeSample == <<LParen, Backslash, 49, 48, 49, Backslash, 110, Backslash, Backslash, RParen, RParen>>
StringInputs ==
    {<<LParen>> \o b : b \in SeqsUpTo(StringAlphabet, MaxStringBody)} \cup {EscapeSample}

\* utils.WHITESPACES: space, line feed, carriage return, tab and NUL
WHITESPACES == {SP, LF, CR, 9, 0}

\* the bytes E, I and Q of the inline-image operators, and a data byte
ByteE == 69
ByteI == 73
ByteQ == 81
ByteX == 120

\* buf.find(b"E") on the bytes from pos on: the position of the first E, or
\* EOF when there is none
FindE(bytes, pos) ==
    IF \E i \in (pos + 1)..Len(bytes) : bytes[i] = ByteE
    THEN (CHOOSE i \in (pos + 1)..Len(bytes) :
              bytes[i] = ByteE /\ \A j \in (pos + 1)..(i - 1) : bytes[j] # ByteE) - 1
    ELSE EOF

\* "while tok3 in utils.WHITESPACES": the position of the first byte from pos
\* on that is no whitespace
RECURSIVE SkipWhitespace(_, _)
SkipWhitespace(bytes, pos) ==
    IF ByteAt(bytes, pos) \in WHITESPACES THEN SkipWhitespace(bytes, pos + 1) ELSE pos

\* stream.seek(-1, 1) after reads that ended at pos: a read at the end of the
\* stream returns nothing and does not move
SeekBackOne(bytes, pos) == (IF pos > Len(bytes) THEN Len(bytes) ELSE pos) - 1

\* the loop of ContentStream._readInlineImage that gathers the image data,
\* from position pos with the data gathered so far
RECURSIVE readImageData(_, _, _)
readImageData(bytes, pos, data) ==
    LET loc == FindE(bytes, pos)
        tok2 == ByteAt(bytes, loc + 1)
        q == SkipWhitespace(bytes, loc + 2)
        tok3 == ByteAt(bytes, q)
    IN  IF pos >= Len(bytes)
        THEN [done |-> TRUE, err |-> "PdfReadError: Unexpected end of stream", data |-> data,
              pos |-> pos]
        ELSE IF loc = EOF
        THEN readImageData(bytes, Len(bytes), data \o SubSeq(bytes, pos + 1, Len(bytes)))
        ELSE IF tok2 = ByteI
        THEN (IF tok3 = ByteQ /\ q > loc + 2
              THEN [done |-> TRUE, err |-> NoErr,
                    data |-> data \o SubSeq(bytes, pos + 1, loc), pos |-> q]
              ELSE readImageData(bytes, SeekBackOne(bytes, q + 1),
                                 data \o SubSeq(bytes, pos + 1, q)))
        ELSE IF tok2 = EOF
        THEN \* the E is the last byte: seek(-1, 1) goes back to it and the
             \* loop reads it again, without end
             [done |-> TRUE, err |-> "no return: the last byte is read again without end",
              data |-> data \o SubSeq(bytes, pos + 1, loc + 1), pos |-> loc]
        ELSE readImageData(bytes, loc + 1, data \o SubSeq(bytes, pos + 1, loc + 1))

\* ContentStream._readInlineImage on a stream that is at the ID operator (the
\* settings have been read): "ID" and one more byte are read first
IDMarker == <<ByteI, 68, SP>>
readInlineImage(bytes) == readImageData(bytes, Len(IDMarker), <<>>)

\* the streams given to it: ID, a space and up to MaxImageBytes bytes
ImageAlphabet == {ByteE, ByteI, ByteQ, SP, ByteX}
ImageInputs == {IDMarker \o b : b \in SeqsUpTo(ImageAlphabet, MaxImageBytes)}

\* stream.read(n) at position pos: the bytes read, fewer than n at the end
ReadBytes(bytes, pos, n) ==
    SubSeq(bytes, pos + 1, IF pos + n > Len(bytes) THEN Len(bytes) ELSE pos + n)

\* utils.readNonWhitespace: skips whitespace and reads one more byte; tok is
\* that byte (EOF at the end of the stream), pos the position after it
readNonWhitespace(bytes, pos) ==
    LET q == SkipWhitespace(bytes, pos)
    IN  [tok |-> ByteAt(bytes, q), pos |-> IF q < Len(bytes) THEN q + 1 ELSE Len(bytes)]

\* the keyword that opens the payload and the marker that closes it
StreamKeyword == <<115, 116, 114, 101, 97, 109, LF>>
EndstreamMarker == <<101, 110, 100, 115, 116, 114, 101, 97, 109>>

\* data[:-1] without the last byte (a variant that chops nothing, then the one
\* of the code)
ChopNothing(data) == data
ChopLast(data) == SubSeq(data, 1, Len(data) - 1)

\* the tail of DictionaryObject.readFromStream after the keyword "stream" and
\* its end of line: reads length bytes of payload and looks for the marker,
\* directly or ten bytes back; found says where the marker was found
readStreamData(bytes, start, length) ==
    LET data == ReadBytes(bytes, start, length)
        p1 == start + Len(data)
        e == readNonWhitespace(bytes, p1)
        ndstream == ReadBytes(bytes, e.pos, 8)
        pos == e.pos + Len(ndstream)
        back == IF pos < 10 THEN 0 ELSE pos - 10
        end == ReadBytes(bytes, back, 9)
    IN  IF e.tok # EOF /\ <<e.tok>> \o ndstream = EndstreamMarker
        THEN [done |-> TRUE, err |-> NoErr, data |-> data, found |-> "directly",
              pos |-> pos]
        ELSE IF end = EndstreamMarker
        THEN [done |-> TRUE, err |-> NoErr, data |-> ChopLast(data), found |-> "by the scan",
              pos |-> back + 9]
        ELSE [done |-> TRUE,
              err |-> "PdfReadError: Unable to find 'endstream' marker after stream at byte",
              data |-> data, found |-> "nowhere", pos |-> pos]

\* a stream as a producer writes it: the payload, what separates it from the
\* marker, the marker (or nine other bytes) and what follows, with the
\* declared /Length
StreamBytes(in) == StreamKeyword \o in.payload \o in.sep \o in.marker \o in.tail
StreamInputs ==
    {[payload |-> p, sep |-> s, marker |-> k, tail |-> t, length |-> Len(p) + d] :
        p \in SeqsUpTo({ByteX, LF, 101}, MaxPayloadBytes),
        s \in {<<>>, <<LF>>, <<CR, LF>>, <<SP>>},
        k \in {EndstreamMarker, <<101, 110, 100, 111, 98, 106, LF, ByteX, ByteX>>},
        t \in {<<>>, <<LF>>, <<ByteX>>, <<LF, 101, 110, 100, 111, 98, 106>>},
        d \in 0..MaxOvershoot}

\* a FloatObject, held as a whole number of millionths, and an IndirectObject
\* of generation 0 (Ref) or of another generation
Real(m) == [t |-> "real", micro |-> m]
Million == 1000000
IndirectObject(idnum, generation) ==
    IF generation = 0 THEN Ref(idnum)
    ELSE [t |-> "ref", n |-> idnum, generation |-> generation]

\* repr of a Python int: the decimal digits, after a minus sign when negative
RECURSIVE DecimalDigits(_)
DecimalDigits(n) ==
    IF n < 10 THEN <<48 + n>> ELSE DecimalDigits(n \div 10) \o <<48 + (n % 10)>>
IntRepr(k) == IF k < 0 THEN <<45>> \o DecimalDigits(-k) ELSE DecimalDigits(k)

\* "while o and o[-1] == '0': o = o[:-1]"
RECURSIVE StripZeros(_)
StripZeros(o) ==
    IF o # <<>> /\ o[Len(o)] = 48 THEN StripZeros(SubSeq(o, 1, Len(o) - 1)) ELSE o

\* FloatObject.__repr__ of a value that is not negative: the integer when it
\* is integral, else "%.5f" without the zeros at its end
FloatRepr(m) ==
    IF m % Million = 0 THEN IntRepr(m \div Million)
    ELSE LET r == (m + 5) \div 10
             f == r % 100000
         IN  StripZeros(DecimalDigits(r \div 100000) \o <<46>>
                        \o <<48 + (f \div 10000), 48 + ((f \div 1000) % 10),
                             48 + ((f \div 100) % 10), 48 + ((f \div 10) % 10),
                             48 + (f % 10)>>)

\* writeToStream of NullObject, BooleanObject, NumberObject, FloatObject,
\* NameObject, IndirectObject and ArrayObject: the bytes written
RECURSIVE writeToStream(_)
RECURSIVE writeItems(_, _)
writeItems(items, i) ==
    IF i > Len(items) THEN <<>>
    ELSE <<SP>> \o writeToStream(items[i]) \o writeItems(items, i + 1)
writeToStream(v) ==
    IF v.t = "null" THEN <<110, 117, 108, 108>>
    ELSE IF v.t = "bool"
    THEN (IF v.b THEN <<116, 114, 117, 101>> ELSE <<102, 97, 108, 115, 101>>)
    ELSE IF v.t = "num" THEN IntRepr(v.n)
    ELSE IF v.t = "real" THEN FloatRepr(v.micro)
    ELSE IF v.t = "name" THEN v.s
    ELSE IF v.t = "ref" THEN IntRepr(v.n) \o <<SP>> \o IntRepr(0) \o <<SP, 82>>
    ELSE <<91>> \o writeItems(v.items, 1) \o <<SP, 93>>

\* the bytes for which bytes.isspace() and the regex class \s hold
Spaces == {9, 10, 11, 12, 13, SP}
\* the bytes of [a-zA-Z]
Letters == (65..90) \cup (97..122)
\* the bytes a number is made of: NumberPattern is [^+-.0-9], and +-. is the
\* range from '+' to '.'
NumberBytes == (43..46) \cup Digits
\* the bytes that end a name: delimiterPattern
NameDelimiters == Spaces \cup {40, 41, 60, 62, 91, 93, 123, 125, 47, 37}

\* the position of the first byte from pos on that is not in S
RECURSIVE SkipWhile(_, _, _)
SkipWhile(bytes, pos, S) ==
    IF ByteAt(bytes, pos) \in S THEN SkipWhile(bytes, pos + 1, S) ELSE pos

\* utils.readUntilRegex for a pattern that matches one byte not in S: the
\* bytes before the match; the end of the stream is an error unless ignore_eof
readUntilRegex(bytes, pos, S, ignore_eof) ==
    LET q == SkipWhile(bytes, pos, S)
    IN  IF q >= Len(bytes) /\ ~ignore_eof
        THEN [err |-> "PdfStreamError: Stream has ended unexpectedly", tok |-> <<>>,
              pos |-> Len(bytes)]
        ELSE [err |-> NoErr, tok |-> SubSeq(bytes, pos + 1, q), pos |-> q]

\* int() of digits
RECURSIVE DigitsValue(_)
DigitsValue(digs) ==
    IF digs = <<>> THEN 0
    ELSE 10 * DigitsValue(SubSeq(digs, 1, Len(digs) - 1)) + (digs[Len(digs)] - 48)
AllDigits(digs) == \A i \in 1..Len(digs) : digs[i] \in Digits

\* IndirectPattern.match(peek): [+-]?(\d+)\s+(\d+)\s+R[^a-zA-Z]
MatchesIndirect(peek) ==
    LET p0 == IF ByteAt(peek, 0) \in {43, 45} THEN 1 ELSE 0
        p1 == SkipWhile(peek, p0, Digits)
        p2 == SkipWhile(peek, p1, Spaces)
        p3 == SkipWhile(peek, p2, Digits)
        p4 == SkipWhile(peek, p3, Spaces)
    IN  /\ p1 > p0 /\ p2 > p1 /\ p3 > p2 /\ p4 > p3
        /\ ByteAt(peek, p4) = 82
        /\ ByteAt(peek, p4 + 1) # EOF
        /\ ByteAt(peek, p4 + 1) \notin Letters

\* the result of reading an object: the error or the value, and the position
Failed(err, pos) == [done |-> TRUE, err |-> err, value |-> None, pos |-> pos]
Parsed(value, pos) == [done |-> TRUE, err |-> NoErr, value |-> value, pos |-> pos]

\* IndirectObject.readFromStream: digits up to a space, digits up to a space,
\* then R
readIndirect(bytes, pos) ==
    LET p1 == SkipWhile(bytes, pos, 0..255 \ Spaces)
        g0 == SkipWhile(bytes, p1, Spaces)
        p3 == SkipWhile(bytes, g0, 0..255 \ Spaces)
        r == readNonWhitespace(bytes, p3 + 1)
        idnum == SubSeq(bytes, pos + 1, p1)
        generation == SubSeq(bytes, g0 + 1, p3)
    IN  IF p1 >= Len(bytes) \/ p3 >= Len(bytes)
        THEN Failed("PdfStreamError: Stream has ended unexpectedly", Len(bytes))
        ELSE IF r.tok # 82
        THEN Failed("PdfReadError: Error reading indirect object reference", r.pos)
        ELSE IF ~AllDigits(idnum) \/ ~AllDigits(generation)
        THEN Failed("ValueError", r.pos)
        ELSE Parsed(IndirectObject(DigitsValue(idnum), DigitsValue(generation)), r.pos)

\* NumberObject.readFromStream: the bytes of the number are read; with a dot
\* they make a FloatObject (0 when they are no decimal), else an int
readNumber(bytes, pos) ==
    LET num == readUntilRegex(bytes, pos, NumberBytes, FALSE)
        neg == num.tok # <<>> /\ num.tok[1] = 45
        body == IF num.tok # <<>> /\ num.tok[1] \in {43, 45}
                THEN SubSeq(num.tok, 2, Len(num.tok)) ELSE num.tok
        dot == SkipWhile(body, 0, Digits)
        whole == SubSeq(body, 1, dot)
        frac == SubSeq(body, dot + 2, Len(body))
        scale == [k \in 0..6 |-> 10 ^ (6 - k)]
        micro == DigitsValue(whole) * Million + DigitsValue(frac) * scale[Len(frac)]
    IN  IF num.err # NoErr THEN Failed(num.err, num.pos)
        ELSE IF \E i \in 1..Len(num.tok) : num.tok[i] = 46
        THEN (IF AllDigits(frac) /\ Len(frac) <= 6 /\ Len(whole) + Len(frac) > 0
              THEN Parsed(Real(IF neg THEN -micro ELSE micro), num.pos)
              ELSE Parsed(Real(0), num.pos))
        ELSE IF body = <<>> \/ ~AllDigits(body) THEN Failed("ValueError", num.pos)
        ELSE Parsed(Num(IF neg THEN -DigitsValue(body) ELSE DigitsValue(body)), num.pos)

\* readObject for the objects written above: the first byte decides what is
\* read (strings and dictionaries have their own readers, readStringFromStream
\* and readDictionary)
RECURSIVE readObject(_, _)
RECURSIVE readArrayItems(_, _, _)
readArrayItems(bytes, pos, items) ==
    LET q == SkipWhile(bytes, pos, Spaces)
        item == readObject(bytes, q)
    IN  IF q >= Len(bytes) THEN Failed("PdfStreamError: Stream has ended unexpectedly", q)
        ELSE IF ByteAt(bytes, q) = 93 THEN Parsed(Arr(items), q + 1)
        ELSE IF item.err # NoErr THEN item
        ELSE readArrayItems(bytes, item.pos, Append(items, item.value))
readObject(bytes, pos) ==
    LET tok == ByteAt(bytes, pos)
        word == ReadBytes(bytes, pos, 4)
        name == readUntilRegex(bytes, pos + 1, 0..255 \ NameDelimiters, TRUE)
    IN  IF tok = 47 THEN Parsed(Name(<<47>> \o name.tok), name.pos)
        ELSE IF tok = 91 THEN readArrayItems(bytes, pos + 1, <<>>)
        ELSE IF tok \in {116, 102}
        THEN (IF word = <<116, 114, 117, 101>> THEN Parsed(Bool(TRUE), pos + 4)
              ELSE IF word = <<102, 97, 108, 115>>
              THEN Parsed(Bool(FALSE), IF pos + 5 > Len(bytes) THEN Len(bytes) ELSE pos + 5)
              ELSE Failed("PdfReadError: Could not read Boolean object", pos + Len(word)))
        ELSE IF tok = 110
        THEN (IF word = <<110, 117, 108, 108>> THEN Parsed(Null, pos + 4)
              ELSE Failed("PdfReadError: Could not read Null object", pos + Len(word)))
        ELSE IF MatchesIndirect(ReadBytes(bytes, pos, 20)) THEN readIndirect(bytes, pos)
        ELSE readNumber(bytes, pos)

\* the objects that are written and read back: the scalars, and the arrays of
\* up to MaxArrayItems of them; each is read alone or with a line feed after it
Scalars ==
    {Null, Bool(TRUE), Bool(FALSE), Num(0), Num(7), Num(12), Num(-3),
     Real(500000), Real(1250000), Real(2 * Million), Real(1),
     Name(<<47, 65>>), Ref(1), Ref(12)}
RoundTripInputs ==
    {[value |-> v, after |-> a] :
        v \in Scalars \cup {Arr(items) : items \in SeqsUpTo(Scalars, MaxArrayItems)},
        a \in {<<>>, <<LF>>}}

\* equality of objects in Python: a NumberObject equals the FloatObject of the
\* same numeric value, arrays are compared item by item
RECURSIVE Canonical(_)
Canonical(v) ==
    IF v.t = "num" THEN Real(v.n * Million)
    ELSE IF v.t = "array" THEN Arr([i \in 1..Len(v.items) |-> Canonical(v.items[i])])
    ELSE v

\* the inputs of a run: the reader and what it is given
ParseInputs ==
    {<<"readDictionary", x>> : x \in DictInputs}
    \cup {<<"readString", x>> : x \in StringInputs}
    \cup {<<"readInlineImage", x>> : x \in ImageInputs}
    \cup {<<"readStream", x>> : x \in StreamInputs}
    \cup {<<"readObject", x>> : x \in RoundTripInputs}

ParseInit ==
    /\ \E x \in ParseInputs : parseFn = x[1] /\ parseIn = x[2]
    /\ parseOut = NotParsed

\* DictionaryObject.readFromStream reads a dictionary
ReadDictionary ==
    /\ parseFn = "readDictionary"
    /\ ~parseOut.done
    /\ parseOut' = readDictionary(parseIn.pairs, parseIn.strict)
    /\ UNCHANGED <<parseFn, parseIn, treeVars, destVars, streamVars, mergerVars, resolveVars>>

\* readStringFromStream reads a literal string
ReadString ==
    /\ parseFn = "readString"
    /\ ~parseOut.done
    /\ parseOut' = readStringFromStream(parseIn)
    /\ UNCHANGED <<parseFn, parseIn, treeVars, destVars, streamVars, mergerVars, resolveVars>>

\* ContentStream._readInlineImage reads the data of an inline image
ReadInlineImage ==
    /\ parseFn = "readInlineImage"
    /\ ~parseOut.done
    /\ parseOut' = readInlineImage(parseIn)
    /\ UNCHANGED <<parseFn, parseIn, treeVars, destVars, streamVars, mergerVars, resolveVars>>

\* DictionaryObject.readFromStream reads the payload of a stream
ReadStream ==
    /\ parseFn = "readStream"
    /\ ~parseOut.done
    /\ parseOut' = readStreamData(StreamBytes(parseIn), Len(StreamKeyword), parseIn.length)
    /\ UNCHANGED <<parseFn, parseIn, treeVars, destVars, streamVars, mergerVars, resolveVars>>

\* an object is written with writeToStream and the bytes are read with
\* readObject
WriteAndReadObject ==
    /\ parseFn = "readObject"
    /\ ~parseOut.done
    /\ parseOut' = readObject(writeToStream(parseIn.value) \o parseIn.after, 0)
    /\ UNCHANGED <<parseFn, parseIn, treeVars, destVars, streamVars, mergerVars, resolveVars>>

ParseNext ==
    \/ ReadDictionary
    \/ ReadString
    \/ ReadInlineImage
    \/ ReadStream
    \/ WriteAndReadObject

(***************************************************************************)
(* Specifications: one per component.  The variables of the components a   *)
(* specification does not exercise keep their initial value.               *)
(***************************************************************************)
TreeIdle ==
    /\ nodes = [n \in NodeIds |-> [k \in {"Title"} |-> Str(n)]]
    /\ treeErr = NoErr
    /\ treeOp = [op |-> "init", p |-> NoNode, c |-> NoNode]
    /\ treeMisuse = FALSE
    /\ treeEmptied = FALSE
    /\ treeSteps = 0

DestIdle ==
    /\ destTyp = "/Fit"
    /\ destArgs = <<>>
    /\ destObj = NotBuilt
    /\ destArray = NoArray

StreamIdle ==
    /\ streamDict = [k \in {"Filter"} |-> Name("/Filter")]
    /\ streamData = 1
    /\ decodedSelf = None
    /\ decodeCalls = 0
    /\ getDataCalls = 0
    /\ lastData = NoData

MergerIdle ==
    /\ srcDocs = [i \in 1..MaxMerges |-> PlainDoc]
    /\ fileKind = "path"
    /\ inputs = <<>>
    /\ pages = <<>>
    /\ bookmarks = <<>>
    /\ named_dests = <<>>
    /\ id_count = 0
    /\ output = NewWriter
    /\ openHandles = {}
    /\ suppliedHandles = {}
    /\ mergeCalls = 0
    /\ addDestCalls = 0
    /\ mergeErr = NoMergeErr
    /\ phase = "open"
    /\ mergerOp = Call("init", 0, 0, 0)

ResolveIdle ==
    /\ objTable = [n \in ObjectIds |-> Obj(n)]
    /\ resolveCur = Ref(1)
    /\ resolveDepth = 0
    /\ resolveState = "idle"

ParseIdle ==
    /\ parseFn = "none"
    /\ parseIn = <<>>
    /\ parseOut = NotParsed

TreeSpecInit == TreeInit /\ DestIdle /\ StreamIdle /\ MergerIdle /\ ResolveIdle /\ ParseIdle

TreeSpec == TreeSpecInit /\ [][TreeNext]_vars

DestSpecInit == DestInit /\ TreeIdle /\ StreamIdle /\ MergerIdle /\ ResolveIdle /\ ParseIdle

DestSpec == DestSpecInit /\ [][DestNext]_vars

StreamSpecInit == StreamInit /\ TreeIdle /\ DestIdle /\ MergerIdle /\ ResolveIdle /\ ParseIdle

StreamSpec == StreamSpecInit /\ [][StreamNext]_vars

MergerSpecInit == MergerInit /\ TreeIdle /\ DestIdle /\ StreamIdle /\ ResolveIdle /\ ParseIdle

MergerSpec == MergerSpecInit /\ [][MergerNext]_vars

ResolveSpecInit ==
    ResolveInit /\ TreeIdle /\ DestIdle /\ StreamIdle /\ MergerIdle /\ ParseIdle

ResolveSpec == ResolveSpecInit /\ [][ResolveNext]_vars

ParseSpecInit ==
    ParseInit /\ TreeIdle /\ DestIdle /\ StreamIdle /\ MergerIdle /\ ResolveIdle

ParseSpec == ParseSpecInit /\ [][ParseNext]_vars

(***************************************************************************)
(* The claims.                                                             *)
(***************************************************************************)
\* /Count of a node, 0 when the key is absent
CountOf(ns, p) == IF Has(ns[p], "Count") THEN ns[p]["Count"].n ELSE 0

\* C1: after any sequence of addChild and removeChild calls, each removeChild
\* targeting a current child, /Count of a parent equals the number of nodes
\* walked from /First via /Next to /Last and every walked child's /Parent is
\* the parent's reference.
C1_TreeInvariant ==
    (~treeMisuse /\ ~treeEmptied) =>
        \A p \in Parents :
            LET w == children(nodes, p)
            IN  /\ w.end = "done"
                /\ CountOf(nodes, p) = Len(w.seq)
                /\ \A i \in 1..Len(w.seq) :
                       /\ Has(nodes[w.seq[i]], "Parent")
                       /\ nodes[w.seq[i]]["Parent"] = Ref(p)


\* a step that is a call of merge or append, and such a call that returns
MergeStep == mergeCalls' = mergeCalls + 1
MergeReturns == MergeStep /\ mergeErr' = NoMergeErr

\* the index at which a list of len items takes a slice that starts at position
InsertionPoint(position, len) ==
    IF position < 0
    THEN (IF -position > len THEN 0 ELSE len + position)
    ELSE (IF position > len THEN len ELSE position)

\* C2: a merge or append that returns leaves the page sequence equal to the
\* previous sequence with the selected source pages, in source order, put in
\* at index position; append puts them in at the end.
C2_PagesSpliced ==
    [][MergeReturns =>
        LET at == IF mergerOp'.op = "append" THEN Len(pages)
                  ELSE InsertionPoint(mergerOp'.position, Len(pages))
            n == IF mergerOp'.stop > mergerOp'.start
                 THEN mergerOp'.stop - mergerOp'.start ELSE 0
        IN  /\ Len(pages') = Len(pages) + n
            /\ \A i \in 1..at : pages'[i] = pages[i]
            /\ \A j \in 1..n :
                   /\ pages'[at + j].src = mergeCalls'
                   /\ pages'[at + j].pg = mergerOp'.start + j - 1
            /\ \A i \in (at + 1)..Len(pages) : pages'[i + n] = pages[i]]_vars

\* the pages of A from page 1 on, then all pages of B, B appended last
C2_Witness ==
    /\ mergerOp.op = "append"
    /\ mergeErr = NoMergeErr
    /\ Len(pages) = 2 * MaxSrcPages - 1
    /\ \A i \in 1..(MaxSrcPages - 1) : pages[i].src = 1 /\ pages[i].pg = i
    /\ \A i \in 1..MaxSrcPages :
           /\ pages[MaxSrcPages - 1 + i].src = 2
           /\ pages[MaxSrcPages - 1 + i].pg = i - 1

\* the bookmark dictionaries of a nested bookmark list, in order
RECURSIVE Entries(_)
Entries(items) ==
    IF items = <<>> THEN <<>>
    ELSE (IF Head(items).k = "list" THEN Entries(Head(items).items) ELSE <<Head(items).d>>)
         \o Entries(Tail(items))

\* the bookmarks and named destinations the call of this step added
NewEntries ==
    Entries(SubSeq(bookmarks', Len(bookmarks) + 1, Len(bookmarks')))
    \o SubSeq(named_dests', Len(named_dests) + 1, Len(named_dests'))

\* those of them that come from the source document
NewSourceEntries == SelectSeq(NewEntries, LAMBDA e : e["Title"] # Str(TitleMerge))

\* the pairs <<title, page index>> of the outline entries and the named
\* destinations of a source document
RECURSIVE SrcTargets(_)
SrcTargets(items) ==
    UNION {IF items[i].k = "list" THEN SrcTargets(items[i].items)
           ELSE {<<items[i].title, items[i].pg>>} : i \in 1..Len(items)}

TargetsOf(doc) ==
    SrcTargets(doc.outline) \cup {<<doc.dests[i].title, doc.dests[i].pg>> : i \in 1..Len(doc.dests)}

\* C3: after a merge with a page range that returns, every source outline
\* entry and named destination the merger has kept targets a page inside the
\* range.
C3_KeptEntriesInRange ==
    [][MergeReturns =>
        \A i \in 1..Len(NewSourceEntries) :
            \E t \in TargetsOf(srcDocs[mergeCalls']) :
                /\ t[1] = NewSourceEntries[i]["Title"].n
                /\ t[2] \in mergerOp'.start..(mergerOp'.stop - 1)]_vars

\* the output page (counted from 1) that the first element of a /D array
\* denotes: a reference to the n-th page added, or a page number from 0
PageDenoted(v) == IF v.t = "oref" THEN v.n ELSE IF v.t = "num" THEN v.n + 1 ELSE 0

\* C4: when every merge has returned, write puts every bookmark whose page
\* was merged into the output outline with a /GoTo action whose destination
\* denotes the output page of its merge-local id.
C4_GoToOutputPage ==
    [][(phase = "open" /\ phase' = "written" /\ Len(inputs) = mergeCalls) =>
        \A i \in 1..Len(Entries(bookmarks)) :
            LET e == Entries(bookmarks)[i]
                at == FirstWithId(pages, e["Page"])
            IN  at # 0 =>
                    \E j \in 1..Len(output'.outline) :
                        LET d == output'.outline[j].d
                        IN  /\ d["Title"] = e["Title"]
                            /\ Has(d, "A")
                            /\ d["A"].S = Name("/GoTo")
                            /\ PageDenoted(d["A"].D[1]) = at]_vars

UnresolvedKinds ==
    {"ValueError: Unresolved named destination", "ValueError: Unresolved bookmark"}

\* the entries the merger holds after this step whose /Page is not an integer
Unbound ==
    SelectSeq(Entries(bookmarks') \o named_dests', LAMBDA e : e["Page"].t # "num")

\* C5: when merge returns, every source entry it added has /Page equal to the
\* merge-local id of the page it targeted in its source; when the bind step
\* leaves an entry without an id, merge has raised an error that names the
\* title of such an entry.
C5_PageIsIdOfTarget ==
    [][(MergeStep /\ mergeErr'.kind # "TypeError: pages must be a tuple") =>
        /\ mergeErr' = NoMergeErr =>
               \A i \in 1..Len(NewSourceEntries) :
                   \E t \in TargetsOf(srcDocs[mergeCalls']) :
                       /\ t[1] = NewSourceEntries[i]["Title"].n
                       /\ NewSourceEntries[i]["Page"] = Num(id_count + t[2] - mergerOp'.start)
        /\ Unbound # <<>> =>
               /\ mergeErr'.kind \in UnresolvedKinds
               /\ \E i \in 1..Len(Unbound) : mergeErr'.title = Unbound[i]["Title"]]_vars

\* C6: a merge that raises in the bind step leaves the page sequence, the
\* bookmark list and the named-destination list as they were before the call.
C6_NoPartialResult ==
    [][(MergeStep /\ mergeErr'.kind \in UnresolvedKinds) =>
        /\ pages' = pages
        /\ bookmarks' = bookmarks
        /\ named_dests' = named_dests]_vars

\* C7: after close no handle or buffer the merger opened is still open, and
\* every handle the callers supplied is.
C7_CloseReleasesOwnHandles ==
    phase = "closed" =>
        /\ \A h \in openHandles : h.owner # "merger"
        /\ suppliedHandles \subseteq openHandles

\* C11: resolving a reference ends by returning an object for every object
\* table: getObject never runs until the interpreter stops the recursion.
C11_ResolutionReturns == resolveState # "RecursionError"

\* the first value a sequence of pairs gives to key
FirstValue(pairs, key) ==
    pairs[CHOOSE i \in 1..Len(pairs) :
              pairs[i].key = key /\ \A j \in 1..(i - 1) : pairs[j].key # key].value

\* some key occurs more than once
HasRepeat(pairs) == \E i, j \in 1..Len(pairs) : i < j /\ pairs[i].key = pairs[j].key

\* C12: a dictionary read without an error maps every key to the value of
\* its first occurrence; a repeated key raises a read error in strict mode
\* and gives a warning, not an error, in lenient mode.
C12_FirstOccurrenceWins ==
    (parseFn = "readDictionary" /\ parseOut.done) =>
        /\ parseOut.err = NoErr =>
               \A i \in 1..Len(parseIn.pairs) :
                   parseOut.data[parseIn.pairs[i].key] = FirstValue(parseIn.pairs, parseIn.pairs[i].key)
        /\ HasRepeat(parseIn.pairs) =>
               IF parseIn.strict THEN parseOut.err # NoErr
               ELSE parseOut.err = NoErr /\ parseOut.warnings > 0

\* C13 as stated: reading (\101\n\\)) yields 'A', a newline and ')'.
C13_YieldsParen ==
    (parseFn = "readString" /\ parseIn = EscapeSample /\ parseOut.done) =>
        /\ parseOut.err = NoErr
        /\ parseOut.value = Text(<<65, LF, RParen>>)

\* C13: reading (\101\n\\)) yields 'A', a newline and a backslash, and the
\* string ends at the first closing parenthesis: the second one is not read.
C13_YieldsBackslash ==
    (parseFn = "readString" /\ parseIn = EscapeSample /\ parseOut.done) =>
        /\ parseOut.err = NoErr
        /\ parseOut.value = Text(<<65, LF, Backslash>>)
        /\ parseOut.pos = Len(EscapeSample) - 1

C13_Witness == parseFn = "readString" /\ parseIn = EscapeSample /\ parseOut.done

\* the bytes of an inline-image stream between "ID " and its last three bytes
RawBytes(bytes) == SubSeq(bytes, Len(IDMarker) + 1, Len(bytes) - 3)

\* C14: a stream "ID <raw bytes> EI" is read as an inline image whose data is
\* the bytes between "ID " and the EI that ends the stream (with or without
\* the space before that EI).
C14_ImageEndsAtTrueEI ==
    (/\ parseFn = "readInlineImage"
     /\ parseOut.done
     /\ Len(parseIn) >= Len(IDMarker) + 3
     /\ SubSeq(parseIn, Len(parseIn) - 2, Len(parseIn)) = <<SP, ByteE, ByteI>>) =>
        /\ parseOut.err = NoErr
        /\ parseOut.data \in {RawBytes(parseIn), RawBytes(parseIn) \o <<SP>>}

\* a stream with the marker in it whose /Length is one more than its payload
\* has been read
OneByteTooLong ==
    /\ parseFn = "readStream"
    /\ parseOut.done
    /\ parseIn.marker = EndstreamMarker
    /\ parseIn.length = Len(parseIn.payload) + 1

\* C15: when /Length is one byte more than the payload, the data read is the
\* payload whenever the marker is found by the scan ten bytes back; when it is
\* found neither directly nor by the scan, the error naming the byte offset
\* is raised.
C15_OvershootTrimmed ==
    OneByteTooLong =>
        /\ parseOut.found = "by the scan" =>
               parseOut.err = NoErr /\ parseOut.data = parseIn.payload
        /\ parseOut.found = "nowhere" =>
               /\ parseOut.err
                      = "PdfReadError: Unable to find 'endstream' marker after stream at byte"
               /\ parseOut.pos <= Len(StreamBytes(parseIn))
        /\ parseOut.found = "directly" => parseOut.err = NoErr

\* a stream one byte too long whose marker was found by the scan, the last
\* byte read being chopped
C15_Witness ==
    /\ OneByteTooLong
    /\ parseOut.found = "by the scan"
    /\ Len(parseIn.payload) > 0
    /\ Len(parseOut.data) = parseIn.length - 1

\* C16: an object written with writeToStream and read back from the written
\* bytes with readObject is read without an error and equals the object
\* written.
C16_RoundTrip ==
    (parseFn = "readObject" /\ parseOut.done /\ parseIn.after = <<>>) =>
        /\ parseOut.err = NoErr
        /\ Canonical(parseOut.value) = Canonical(parseIn.value)

\* C17: in every state reached by addChild, removeChild and emptyTree, a node
\* without /First has no children (hasChildren is false and children() yields
\* nothing) and has neither /Count nor /Last.
C17_NoFirstNoCountNoLast ==
    \A n \in NodeIds :
        ~Has(nodes[n], "First") =>
            /\ ~hasChildren(nodes, n)
            /\ children(nodes, n).seq = <<>>
            /\ ~Has(nodes[n], "Count")
            /\ ~Has(nodes[n], "Last")

\* a parent that had children has none left after a removeChild or an
\* emptyTree that returned
C17_Witness ==
    /\ treeOp.op \in {"removeChild", "emptyTree"}
    /\ treeErr = NoErr
    /\ treeSteps >= 2
    /\ ~Has(nodes[treeOp.p], "First")
    /\ \E q \in Parents \ {treeOp.p} : Has(nodes[q], "First")

\* the bookmarks that merge has made from a title, among the entries es
MergeBookmarks(es) == SelectSeq(es, LAMBDA e : e["Title"] = Str(TitleMerge))

\* the page sequence holds at index j the page with the id that e names
PointsAt(e, pgs, j) == e["Page"] = Num(pgs[j].id)

\* C18: the bookmark that merge makes from a title points at the first page
\* that the same call has ingested, whatever the page range is and whatever
\* merges follow: a page it points at after a merge is the first page of the
\* range of the call that made it, never a page a later call has ingested.
C18_BookmarkAtOwnFirstPage ==
    [][MergeReturns =>
        /\ \A i \in 1..Len(MergeBookmarks(NewEntries)) :
               \A j \in 1..Len(pages') :
                   PointsAt(MergeBookmarks(NewEntries)[i], pages', j) =>
                       /\ pages'[j].src = mergeCalls'
                       /\ pages'[j].pg = mergerOp'.start
        /\ \A i \in 1..Len(MergeBookmarks(Entries(bookmarks))) :
               \A j \in 1..Len(pages') :
                   PointsAt(MergeBookmarks(Entries(bookmarks))[i], pages', j) =>
                       pages'[j].src # mergeCalls']_vars

\* the named destinations that addNamedDestination has added, among the
\* entries es
AddedDests(es) == SelectSeq(es, LAMBDA e : e["Title"] = Str(TitleAdded))

\* C19: after addNamedDestination(title, pagenum), write registers a named
\* destination of that title that points at the output page of index pagenum
\* (the page number pagenum + 1 counted from 1), whatever merges were made.
C19_NamedDestAtPagenum ==
    [][(phase = "open" /\ phase' = "written" /\ Len(inputs) = mergeCalls) =>
        \A i \in 1..Len(AddedDests(named_dests)) :
            LET e == AddedDests(named_dests)[i]
            IN  e["Page"].n < Len(pages) =>
                    \E j \in 1..Len(output'.dests) :
                        /\ output'.dests[j]["Title"] = e["Title"]
                        /\ PageDenoted(output'.dests[j]["Page"]) = e["Page"].n + 1]_vars

\* the number of pages the call of this step ingests: those of its range,
\* none when the pages argument is refused
Ingested ==
    IF mergeErr'.kind = "TypeError: pages must be a tuple" \/ mergerOp'.stop <= mergerOp'.start
    THEN 0
    ELSE mergerOp'.stop - mergerOp'.start

\* C20: every call of merge or append gives the pages it ingests the ids from
\* id_count on, one more for each page in the order of ingestion, and id_count
\* grows by their number; all ids of the page sequence are pairwise distinct
\* and below id_count.
C20_IdsUniqueIncreasing ==
    [][MergeStep =>
        /\ id_count' = id_count + Ingested
        /\ mergeErr' = NoMergeErr =>
               /\ Len(pages') = Len(pages) + Ingested
               /\ \A j \in 1..Ingested :
                      pages'[InsertionPoint(mergerOp'.position, Len(pages)) + j].id
                          = id_count + j - 1
        /\ \A i, j \in 1..Len(pages') : i # j => pages'[i].id # pages'[j].id
        /\ \A i \in 1..Len(pages') : pages'[i].id < id_count']_vars

\* two merges have ingested pages and a page of the later one precedes a page
\* of the earlier one in the page sequence
C20_Witness ==
    /\ mergeCalls = 2
    /\ mergeErr = NoMergeErr
    /\ id_count = Len(pages)
    /\ \E i, j \in 1..Len(pages) : i < j /\ pages[i].src = 2 /\ pages[j].src = 1

\* the source document of the call of this step has an outline of a group
\* header and the list of its child, and the page range of the call is a
\* tuple
GroupMerged ==
    /\ MergeStep
    /\ mergeErr'.kind # "TypeError: pages must be a tuple"
    /\ Len(srcDocs[mergeCalls'].outline) = 2

\* the page the header and the page its child target in the source
HeaderPg == srcDocs[mergeCalls'].outline[1].pg
ChildPg == srcDocs[mergeCalls'].outline[2].items[1].pg

\* a page index lies in the range of the call of this step
InCallRange(pg) == pg >= mergerOp'.start /\ pg < mergerOp'.stop

\* the titles of a sequence of bookmark dictionaries
TitlesOf(es) == [i \in 1..Len(es) |-> es[i]["Title"].n]

\* C21: a merge of a range that holds a page targeted by an entry of a child
\* list but not the page targeted by the group header succeeds, and an
\* imported outline keeps the header directly before its child; when the range
\* holds neither page, header and child are dropped.
C21_HeaderKeptWithChildren ==
    [][GroupMerged =>
        /\ (~InCallRange(HeaderPg) /\ InCallRange(ChildPg)) =>
               /\ mergeErr' = NoMergeErr
               /\ TitlesOf(NewSourceEntries) \in {<<>>, <<TitleHeader, TitleChild>>}
        /\ (~InCallRange(HeaderPg) /\ ~InCallRange(ChildPg)) =>
               /\ mergeErr' = NoMergeErr
               /\ TitlesOf(NewSourceEntries) = <<>>]_vars

\* the outline nodes a nested bookmark list stands for, each with the number
\* of its parent node (0 for the outline root) and its title: the entries of a
\* list are children of the node of the entry before the list at its level;
\* acc holds the nodes so far and header is the node of that entry
RECURSIVE NestingFrom(_, _, _, _, _)
NestingFrom(bms, parent, acc, header, i) ==
    IF i > Len(bms) THEN acc
    ELSE IF bms[i].k = "list"
    THEN NestingFrom(bms, parent, NestingFrom(bms[i].items, header, acc, 0, 1), header, i + 1)
    ELSE NestingFrom(bms, parent,
                     Append(acc, [parent |-> parent, title |-> bms[i].d["Title"]]),
                     Len(acc) + 1, i + 1)

Nesting(bms) == NestingFrom(bms, 0, <<>>, 0, 1)

\* the parent and the title of each node of the outline of the output
OutlineOf(out) ==
    [j \in 1..Len(out.outline) |->
        [parent |-> out.outline[j].parent, title |-> out.outline[j].d["Title"]]]

C23_RegisteredDestsRewritten ==
    [][(phase = "open" /\ phase' = "written" /\ Len(inputs) = mergeCalls) =>
        \A j \in 1..Len(output'.dests) :
            LET d == output'.dests[j]
            IN  /\ d["Page"].t = "oref"
                /\ \E i \in 1..Len(named_dests) :
                       /\ named_dests[i]["Title"] = d["Title"]
                       /\ named_dests[i]["Page"] = Num(pages[d["Page"].n].id)]_vars

\* the sibling list of p is sound: the walk from /First ends at /Last, /Count
\* is its length and every walked node names p as /Parent
SoundTree(ns, p) ==
    LET w == children(ns, p)
    IN  /\ w.end = "done"
        /\ CountOf(ns, p) = Len(w.seq)
        /\ Has(ns[p], "First") => Has(ns[p], "Last") /\ Has(ns[p], "Count")
        /\ \A i \in 1..Len(w.seq) :
               Has(ns[w.seq[i]], "Parent") /\ ns[w.seq[i]]["Parent"].n = p

\* the step is a call of the tree operation op
TreeCall(op) == treeSteps' = treeSteps + 1 /\ treeOp'.op = op

\* C24: addChild(c) on a parent with a sound sibling list appends c at its
\* tail: /Last is c, /Count is one more (1, with /First c, when there was no
\* child), c's /Prev is the former last child whose /Next is c, c's /Parent
\* is the parent's reference, and the children before c are as they were.
C24_AddChildAppends ==
    [][(TreeCall("addChild") /\ SoundTree(nodes, treeOp'.p)) =>
        LET p == treeOp'.p
            c == treeOp'.c
            before == Walk(nodes, p)
        IN  /\ treeErr' = NoErr
            /\ nodes'[p]["Last"] = Ref(c)
            /\ nodes'[p]["Count"] = Num(Len(before) + 1)
            /\ nodes'[p]["First"] = (IF before = <<>> THEN Ref(c) ELSE nodes[p]["First"])
            /\ nodes'[c]["Parent"] = Ref(p)
            /\ Walk(nodes', p) = Append(before, c)
            /\ children(nodes', p).end = "done"
            /\ before # <<>> =>
                   /\ nodes'[c]["Prev"] = Ref(before[Len(before)])
                   /\ nodes'[before[Len(before)]]["Next"] = Ref(c)
            /\ before = <<>> => ~Has(nodes'[c], "Prev")
            /\ ~Has(nodes'[c], "Next")]_vars

\* addChild has put a third child behind two others
C24_Witness ==
    /\ treeOp.op = "addChild"
    /\ treeErr = NoErr
    /\ SoundTree(nodes, treeOp.p)
    /\ Len(Walk(nodes, treeOp.p)) = 3
    /\ Walk(nodes, treeOp.p)[3] = treeOp.c

\* s without its element x
RECURSIVE Without(_, _)
Without(s, x) ==
    IF s = <<>> THEN <<>>
    ELSE IF Head(s) = x THEN Without(Tail(s), x)
    ELSE <<Head(s)>> \o Without(Tail(s), x)

\* the node has none of /Parent, /Next, /Prev
Detached(ns, c) == ~Has(ns[c], "Parent") /\ ~Has(ns[c], "Next") /\ ~Has(ns[c], "Prev")

\* C25: removeChild(c) for any child c (first, middle, last, only) of a parent
\* with n children completes, leaves the other n-1 children linked in their
\* order with /Count n-1, and c without /Parent, /Next, /Prev; when n = 1 the
\* parent's /First, /Last and /Count are deleted.
C25_RemoveChildCompletes ==
    [][(/\ TreeCall("removeChild")
        /\ SoundTree(nodes, treeOp'.p)
        /\ InSeq(treeOp'.c, Walk(nodes, treeOp'.p))) =>
        LET p == treeOp'.p
            c == treeOp'.c
            before == Walk(nodes, p)
        IN  /\ treeErr' = NoErr
            /\ Walk(nodes', p) = Without(before, c)
            /\ CountOf(nodes', p) = Len(before) - 1
            /\ Detached(nodes', c)
            /\ Len(before) = 1 =>
                   /\ ~Has(nodes'[p], "First")
                   /\ ~Has(nodes'[p], "Last")
                   /\ ~Has(nodes'[p], "Count")]_vars

\* the nodes removeChild's loop visits: from /First along /Next until a node
\* has no /Next
RECURSIVE ChainFrom(_, _, _)
ChainFrom(ns, cur, fuel) ==
    IF fuel = 0 THEN <<>>
    ELSE IF Has(ns[cur], "Next")
         THEN <<cur>> \o ChainFrom(ns, ns[cur]["Next"].n, fuel - 1)
         ELSE <<cur>>

Chain(ns, p) ==
    IF Has(ns[p], "First") THEN ChainFrom(ns, ns[p]["First"].n, MaxChildren + 2) ELSE <<>>

\* C26: removeChild(c) fails with an error when c has no /Parent, when c's
\* /Parent is another node than the tree, and when c is not reached by the
\* walk from /First.
C26_RemoveForeignFails ==
    [][(/\ TreeCall("removeChild")
        /\ \/ ~Has(nodes[treeOp'.c], "Parent")
           \/ nodes[treeOp'.c]["Parent"].n # treeOp'.p
           \/ ~InSeq(treeOp'.c, Chain(nodes, treeOp'.p))) =>
        /\ treeErr' \notin {NoErr, "loop"}
        /\ nodes' = nodes]_vars

\* removeChild was called for a node that names the tree as /Parent but is not
\* on its sibling list, and raised
C26_Witness ==
    /\ treeOp.op = "removeChild"
    /\ treeErr = "ValueError: Removal couldn't find item in tree"
    /\ Has(nodes[treeOp.c], "Parent")
    /\ nodes[treeOp.c]["Parent"].n = treeOp.p
    /\ ~InSeq(treeOp.c, Chain(nodes, treeOp.p))

\* the link keys of a tree and of its items
LinkKeys == {"First", "Last", "Count", "Parent", "Next", "Prev"}

LinkView(ns) ==
    [n \in DOMAIN ns |-> [k \in DOMAIN ns[n] \cap LinkKeys |-> ns[n][k]]]

\* C29: removeChild is all-or-nothing: whenever it raises, the parent's
\* /First, /Last, /Count and every child's /Parent, /Next, /Prev are as they
\* were before the call.
C29_RemoveChildAllOrNothing ==
    [][(TreeCall("removeChild") /\ treeErr' # NoErr) =>
        LinkView(nodes') = LinkView(nodes)]_vars

\* C27: emptyTree() on a parent with any number of children (none, one, two
\* or more) completes; afterwards no former child has /Parent, /Next or
\* /Prev and the parent has no /First, /Last or /Count.
C27_EmptyTreeCompletes ==
    [][(TreeCall("emptyTree") /\ SoundTree(nodes, treeOp'.p)) =>
        LET p == treeOp'.p
            before == Walk(nodes, p)
        IN  /\ treeErr' = NoErr
            /\ \A i \in 1..Len(before) : Detached(nodes', before[i])
            /\ ~Has(nodes'[p], "First")
            /\ ~Has(nodes'[p], "Last")
            /\ ~Has(nodes'[p], "Count")]_vars

\* the positional fields in the order the claim fixes
FieldOrder == <<"Left", "Bottom", "Right", "Top", "Zoom">>

\* the fields of FieldOrder that the destination has, in that order
FieldsSet(d) == SelectSeq(FieldOrder, LAMBDA k : Has(d, k))

\* C28: for every successfully constructed Destination, getDestArray() is
\* [page, type] followed by exactly the positional fields that are set, in
\* the order Left, Bottom, Right, Top, Zoom; /Fit and /FitB give [page, type]
\* and the other types give [page, type] followed by their arguments.
C28_DestArrayOfSetFields ==
    destArray # NoArray =>
        LET d == destObj.d
            set == FieldsSet(d)
        IN  /\ destObj.state = "built"
            /\ destArray = <<Ref(1), Name(destTyp)>> \o [i \in 1..Len(set) |-> d[set[i]]]
            /\ destArray = <<Ref(1), Name(destTyp)>> \o
                   (IF destTyp \in {"/Fit", "/FitB"} THEN <<>> ELSE destArgs)

\* the array of an /XYZ destination built from (left, top, zoom) was returned
C28_Witness ==
    /\ destTyp = "/XYZ"
    /\ destArgs = <<Num(826), Null, Num(826)>>
    /\ destArray = <<Ref(1), Name("/XYZ"), Num(826), Null, Num(826)>>

\* the input is a literal string that starts with an octal escape of the one
\* or two digits digs, followed by the bytes rest
ShortOctalThen(digs, rest) == parseIn = <<LParen, Backslash>> \o digs \o rest

\* C30: in readStringFromStream an octal escape of one or two digits followed
\* by a byte that is no digit contributes exactly one character, and the
\* following byte is processed as ordinary content: a letter is kept, and a
\* closing parenthesis at depth 1 closes the string.
C30_ShortOctalKeepsNextByte ==
    (parseFn = "readString" /\ parseOut.done) =>
        \A digs \in {<<49>>, <<48>>, <<49, 48>>, <<48, 49>>} :
            /\ ShortOctalThen(digs, <<RParen>>) =>
                   /\ parseOut.err = NoErr
                   /\ parseOut.value = Text(<<OctalValue(digs)>>)
                   /\ parseOut.pos = Len(parseIn)
            /\ ShortOctalThen(digs, <<110, RParen>>) =>
                   /\ parseOut.err = NoErr
                   /\ parseOut.value = Text(<<OctalValue(digs), 110>>)
                   /\ parseOut.pos = Len(parseIn)

\* the arity the claim fixes for each fit type
ClaimedArity(typ) ==
    IF typ = "/XYZ" THEN 3
    ELSE IF typ = "/FitR" THEN 4
    ELSE IF typ \in {"/FitH", "/FitBH", "/FitV", "/FitBV"} THEN 1
    ELSE 0

\* C8 (as stated): Destination raises at construction whenever typ is not one
\* of the eight fit types or the number of args differs from the arity of typ
\* (XYZ 3, FitR 4, FitH/FitBH/FitV/FitBV 1, Fit/FitB 0).
C8_RaisesOnAnyMismatch ==
    (destObj.state # "none" /\ (destTyp \notin FitTypes \/ Len(destArgs) # ClaimedArity(destTyp)))
        => destObj.state = "raised"

\* C8 (amended): Destination raises at construction exactly when typ is not one
\* of the eight fit types, or typ is XYZ, FitR, FitH, FitBH, FitV or FitBV and
\* the number of args differs from its arity; for Fit and FitB nothing is
\* raised whatever the number of args.
C8_RaisesOnCheckedMismatch ==
    destObj.state # "none" =>
        (destObj.state = "raised" <=>
            \/ destTyp \notin FitTypes
            \/ /\ destTyp \notin {"/Fit", "/FitB"}
               /\ Len(destArgs) # ClaimedArity(destTyp))

\* C8 witness: FitR constructed with three arguments has raised
C8_Witness ==
    destTyp = "/FitR" /\ Len(destArgs) = 3 /\ destObj.state = "raised"

\* C9: constructing a Destination of type XYZ with fewer than 3 arguments
\* fails; constructing one of type Fit with any number of arguments succeeds
\* and its getDestArray() has length 2.
C9_XYZFailsFitSucceeds ==
    /\ (destObj.state # "none" /\ destTyp = "/XYZ" /\ Len(destArgs) < 3)
           => destObj.state = "raised"
    /\ (destObj.state # "none" /\ destTyp = "/Fit")
           => /\ destObj.state = "built"
              /\ destArray # NoArray => Len(destArray) = 2

\* C9 witness: a Fit destination built with arguments has given its array
C9_Witness ==
    /\ destTyp = "/Fit" /\ Len(destArgs) >= 1
    /\ destObj.state = "built" /\ Len(destArray) = 2

\* C10: over any sequence of getData() calls the filter decode is invoked
\* exactly once and every call returns the decoded payload, for every stream
\* dictionary.
C10_DecodeOnce ==
    getDataCalls >= 1 =>
        /\ decodeCalls = 1
        /\ lastData = decodeStreamData(streamData)
====
